---- MODULE Spec2Model ----
(***************************************************************************)
(* Model of code-agent-monitor: the two session scanners                   *)
(* (ClaudeDataProvider, CodexDataProvider), the recent-activity snapshot   *)
(* and the usage per model (getTodayStats, getModelUsage), the history     *)
(* (getRecentHistory), formatRelativeTime, the debounced file watchers of  *)
(* extension.ts and the dashboard panel (DashboardPanel).                  *)
(*                                                                         *)
(* The providers keep no state of their own: every call reads the files    *)
(* of ~/.claude or ~/.codex and computes its result afresh.  The state of  *)
(* the model is therefore the content of those directories, the clock and  *)
(* the time zone, the value the most recent call returned, and the state   *)
(* of the extension in the editor: its watchers and timers, and its        *)
(* dashboard.  The agent CLIs write the files; a write makes the value     *)
(* returned before it stale, and the model drops it.  The two providers    *)
(* read disjoint directories and share nothing, so a behaviour populates   *)
(* one of the two directories, except where the dashboard merges the       *)
(* projects of both.  Each part has its specification, in which the rest   *)
(* of the state stays as it is at the start.                               *)
(*                                                                         *)
(* Times are milliseconds since the epoch, as Date.getTime() gives them;   *)
(* the time of an unparseable or missing date string is NaN.               *)
(***************************************************************************)
EXTENDS Integers, Sequences, FiniteSets, TLC

VARIABLES
    claudeFs,   \* ~/.claude/projects: [exists, entries], entries in readdir order
    codexFs,    \* ~/.codex/sessions: [exists, files], files in walk order
    statsFile,  \* ~/.claude/stats-cache.json
    now,        \* the clock, new Date().getTime()
    ret,        \* the most recent call and what it returned
    utcOffset,  \* the time zone of the machine: local time minus UTC, in ms
    historyFile,\* ~/.claude/history.jsonl
    extension,  \* extension.ts: the file watchers, the debounce timer, the trees
    dashboard   \* DashboardPanel.currentPanel and the webview panels of the editor

vars == <<claudeFs, codexFs, statsFile, now, ret,
          utcOffset, historyFile, extension, dashboard>>

----------------------------------------------------------------------------
(* Bounds of the model *)

MaxWrites == 4    \* directory entries and sessions written under ~/.claude/projects
MaxFiles  == 3    \* files met by the walk of ~/.codex/sessions
MaxDaily  == 3    \* entries of dailyActivity, dailyModelTokens and modelUsage together
MaxDay    == 3    \* the last day the clock reaches
MaxLines  == 3    \* lines of history.jsonl
MaxLimit  == 3    \* the greatest limit getRecentHistory is called with
MaxPanels == 2    \* webview panels the editor creates in a behaviour
MaxUpdates == 2   \* calls of update() of one panel in flight at a time
MaxProjects == 16 \* projects of both agents the dashboard is given

----------------------------------------------------------------------------
(* JavaScript values *)

\* getTime() of an Invalid Date; every comparison with it is false
NaN == -1

MsPerDay == 86400000

\* new Date(0)
Epoch == 0

IsNaN(x) == x = NaN

\* the value undefined of an absent field; no string of the model equals it
Undefined == "undefined"

\* new Date(s).getTime(): the date strings of the model and their times;
\* any other string, and undefined, give an Invalid Date
DateTime(s) ==
    IF s = "1970-01-02T00:00:00Z" THEN MsPerDay
    ELSE IF s = "1970-01-10T00:00:00Z" THEN 9 * MsPerDay
    ELSE NaN

\* a > b on numbers, false when either is NaN
JsGreater(a, b) == ~IsNaN(a) /\ ~IsNaN(b) /\ a > b

RECURSIVE SumSeq(_)
SumSeq(s) == IF s = <<>> THEN 0 ELSE Head(s) + SumSeq(Tail(s))

Reverse(s) == [i \in 1..Len(s) |-> s[Len(s) + 1 - i]]

----------------------------------------------------------------------------
(* Array.prototype.sort((a, b) => time(b) - time(a)) as V8 runs it on an   *)
(* array shorter than 64: the leading run is found (and reversed when it   *)
(* is strictly descending for the comparator), and the rest is put in      *)
(* place by binary insertion.  A comparator result of NaN counts as 0.     *)
(* The elements sorted are records with a field k, the time compared.      *)

\* (a, b) => b.k - a.k, NaN read as 0
Compare(a, b) == IF IsNaN(a.k) \/ IsNaN(b.k) THEN 0 ELSE b.k - a.k

\* length of the run that starts at s[1]; desc: the run is strictly descending
RECURSIVE RunEnd(_, _, _)
RunEnd(s, idx, desc) ==
    IF idx > Len(s) THEN idx - 1
    ELSE LET order == Compare(s[idx], s[idx - 1])
         IN  IF (desc /\ order >= 0) \/ (~desc /\ order < 0)
             THEN idx - 1
             ELSE RunEnd(s, idx + 1, desc)

RunIsDescending(s) == Compare(s[2], s[1]) < 0

CountAndMakeRun(s) ==
    LET desc == RunIsDescending(s)
        n    == RunEnd(s, 3, desc)
    IN  [len |-> n,
         arr |-> IF desc
                 THEN Reverse(SubSeq(s, 1, n)) \o SubSeq(s, n + 1, Len(s))
                 ELSE s]

\* mutant of BinarySearch: the pivot goes before the elements it is equal to
RECURSIVE BinarySearchBeforeEqual(_, _, _, _)
BinarySearchBeforeEqual(s, pivot, left, right) ==
    IF left >= right THEN left
    ELSE LET mid == left + ((right - left) \div 2)
         IN  IF Compare(pivot, s[mid]) <= 0
             THEN BinarySearchBeforeEqual(s, pivot, left, mid)
             ELSE BinarySearchBeforeEqual(s, pivot, mid + 1, right)

\* the place of pivot among s[1..start-1]
RECURSIVE BinarySearch(_, _, _, _)
BinarySearch(s, pivot, left, right) ==
    IF left >= right THEN left
    ELSE LET mid == left + ((right - left) \div 2)
         IN  IF Compare(pivot, s[mid]) < 0
             THEN BinarySearch(s, pivot, left, mid)
             ELSE BinarySearch(s, pivot, mid + 1, right)

RECURSIVE BinaryInsertionSort(_, _)
BinaryInsertionSort(s, start) ==
    IF start > Len(s) THEN s
    ELSE LET pivot == s[start]
             left  == BinarySearch(s, pivot, 1, start)
             moved == SubSeq(s, 1, left - 1) \o <<pivot>>
                      \o SubSeq(s, left, start - 1)
                      \o SubSeq(s, start + 1, Len(s))
         IN  BinaryInsertionSort(moved, start + 1)

ArraySort(s) ==
    IF Len(s) < 2 THEN s
    ELSE LET run == CountAndMakeRun(s)
         IN  BinaryInsertionSort(run.arr, run.len + 1)

Unkeyed(s) == [i \in 1..Len(s) |-> s[i].v]

----------------------------------------------------------------------------
(* ClaudeDataProvider.getProjects *)

\* a session's "modified" string: two dates, and a string that is no date
SessionTimes == {"", "1970-01-02T00:00:00Z", "1970-01-10T00:00:00Z"}

MessageCounts == {1, 2}

\* a session of an index file, before the file gives it its id
SessionData == [modified : SessionTimes, messageCount : MessageCounts]

NoReturn == [op |-> "none", threw |-> FALSE, value |-> <<>>]

Returned(op, value) == [op |-> op, threw |-> FALSE, value |-> value]

Threw(op) == [op |-> op, threw |-> TRUE, value |-> <<>>]

\* a sessions-index.json: absent, unreadable or unparseable ("invalid": the
\* read, JSON.parse or a use of the parsed value throws), or parsed, with
\* its session list under "entries", under the legacy "sessions", or under
\* neither; originalPath is the optional field of that name, left out by
\* default
IndexFile(state, hasEntries, hasSessions) ==
    [state        |-> state,
     hasEntries   |-> hasEntries,  entries  |-> <<>>,
     hasSessions  |-> hasSessions, sessions |-> <<>>,
     originalPath |-> Undefined]

IndexAbsent == IndexFile("absent", FALSE, FALSE)

IndexChoices ==
    {IndexAbsent, IndexFile("invalid", FALSE, FALSE)}
    \cup {IndexFile("ok", e, l) : e, l \in BOOLEAN}

\* what the agent CLI can create in the projects directory: a plain file,
\* or a project directory with or without an index file
EntryChoices ==
    {[isDirectory |-> FALSE, index |-> IndexAbsent]}
    \cup {[isDirectory |-> TRUE, index |-> ix] : ix \in IndexChoices}

\* the sessions an index file holds
Held(index) == Len(index.entries) + Len(index.sessions)

\* directory entries and sessions written so far
ClaudeWrites ==
    Len(claudeFs.entries)
    + SumSeq([i \in 1..Len(claudeFs.entries) |-> Held(claudeFs.entries[i].index)])

\* a session with the next id of its list
NewSession(list, data) ==
    [sessionId    |-> Len(list) + 1,
     modified     |-> data.modified,
     messageCount |-> data.messageCount]

\* index.entries || index.sessions || []
IndexSessions(index) ==
    IF index.hasEntries THEN index.entries
    ELSE IF index.hasSessions THEN index.sessions
    ELSE <<>>

\* mutant of TotalMessages: the sessions are counted, not their messages
TotalMessagesCountsSessions(sessions) == Len(sessions)

\* sessions.reduce((sum, s) => sum + s.messageCount, 0)
TotalMessages(sessions) ==
    SumSeq([i \in 1..Len(sessions) |-> sessions[i].messageCount])

\* the loop of lines 55-61: the greatest valid time, new Date(0) at least
RECURSIVE LastModified(_, _)
LastModified(times, last) ==
    IF times = <<>> THEN last
    ELSE LastModified(Tail(times),
                      IF JsGreater(Head(times), last) THEN Head(times) ELSE last)

\* new Date(s.modified).getTime()
SessionModified(s) == DateTime(s.modified)

\* sessions.sort((a, b) => new Date(b.modified) - new Date(a.modified))
SortSessions(sessions) ==
    Unkeyed(ArraySort([i \in 1..Len(sessions) |->
                          [k |-> SessionModified(sessions[i]), v |-> sessions[i]]]))

\* a || b for a and b strings or undefined
OrElse(a, b) == IF a = Undefined \/ a = "" THEN b ELSE a

\* s.replace(/from/g, to) from position i on, from and to one character each
RECURSIVE ReplaceAll(_, _, _, _)
ReplaceAll(s, from, to, i) ==
    IF i > Len(s) THEN ""
    ELSE (IF SubSeq(s, i, i) = from THEN to ELSE SubSeq(s, i, i))
         \o ReplaceAll(s, from, to, i + 1)

\* escapedPath.replace(/-/g, '/')
unescapePath(escapedPath) == ReplaceAll(escapedPath, "-", "/", 1)

\* p without its trailing separators
RECURSIVE StripTrailing(_)
StripTrailing(p) ==
    IF Len(p) > 1 /\ SubSeq(p, Len(p), Len(p)) = "/"
    THEN StripTrailing(SubSeq(p, 1, Len(p) - 1))
    ELSE p

\* the position of the last separator of p, 0 when it has none
LastSeparator(p) ==
    LET at == {i \in 1..Len(p) : SubSeq(p, i, i) = "/"}
    IN  IF at = {} THEN 0 ELSE CHOOSE i \in at : \A j \in at : j <= i

\* path.basename(p) of a string (POSIX)
Basename(p) ==
    LET q == StripTrailing(p)
        k == LastSeparator(q)
    IN  IF q = "/" THEN "" ELSE IF k = 0 THEN q ELSE SubSeq(q, k + 1, Len(q))

\* index.originalPath || this.unescapePath(entry.name)
ProjectPath(entry) ==
    OrElse(entry.index.originalPath, unescapePath(entry.name))

\* the record pushed for one readable index file
ProjectOf(entry) ==
    LET sessions == IndexSessions(entry.index)
    IN  [name          |-> Basename(ProjectPath(entry)),
         path          |-> ProjectPath(entry),
         escapedPath   |-> entry.name,
         sessions      |-> SortSessions(sessions),
         totalMessages |-> TotalMessages(sessions),
         lastModified  |->
             LastModified([i \in 1..Len(sessions) |-> DateTime(sessions[i].modified)],
                          Epoch)]

\* mutant of CollectProjects: the try/catch is around the loop, so the
\* first index file that throws ends the scan
RECURSIVE CollectProjectsAborting(_)
CollectProjectsAborting(entries) ==
    IF entries = <<>> THEN <<>>
    ELSE LET e == Head(entries)
         IN  IF e.isDirectory /\ e.index.state = "invalid" THEN <<>>
             ELSE IF e.isDirectory /\ e.index.state = "ok"
             THEN <<ProjectOf(e)>> \o CollectProjectsAborting(Tail(entries))
             ELSE CollectProjectsAborting(Tail(entries))

\* the body of the for loop over the directory entries: an entry that is
\* no directory, has no index file, or whose index file throws, is skipped
RECURSIVE CollectProjects(_)
CollectProjects(entries) ==
    IF entries = <<>> THEN <<>>
    ELSE LET e == Head(entries)
         IN  IF e.isDirectory /\ e.index.state = "ok"
             THEN <<ProjectOf(e)>> \o CollectProjects(Tail(entries))
             ELSE CollectProjects(Tail(entries))

ProjectLastModified(p) == p.lastModified

\* mutant of SortProjects: the projects are returned unsorted
SortProjectsMissing(projects) == projects

\* projects.sort((a, b) => b.lastModified.getTime() - a.lastModified.getTime())
SortProjects(projects) ==
    Unkeyed(ArraySort([i \in 1..Len(projects) |->
                          [k |-> ProjectLastModified(projects[i]), v |-> projects[i]]]))

\* fs.readdirSync throws ENOENT on a directory that does not exist
ReaddirThrows(fs) == ~fs.exists

\* mutant of ClaudeProjects: the existsSync test of the directory is missing
ClaudeProjectsUnguarded(fs) ==
    IF ReaddirThrows(fs) THEN Threw("claude.getProjects")
    ELSE Returned("claude.getProjects", SortProjects(CollectProjects(fs.entries)))

\* what a call of getProjects comes to: the value returned, or a rejection
ClaudeProjects(fs) ==
    IF ~fs.exists THEN Returned("claude.getProjects", <<>>)
    ELSE IF ReaddirThrows(fs) THEN Threw("claude.getProjects")
    ELSE Returned("claude.getProjects", SortProjects(CollectProjects(fs.entries)))

ClaudeGetProjects ==
    /\ ret' = ClaudeProjects(claudeFs)
    /\ UNCHANGED <<claudeFs, codexFs, statsFile, now>>
    /\ UNCHANGED <<utcOffset, historyFile, extension, dashboard>>

----------------------------------------------------------------------------
(* CodexDataProvider *)

\* the first line of a session-transcript file: no JSON value with fields
\* ("invalid": the read, JSON.parse or the use of the value throws), or an
\* event with a type and, when hasPayload, a payload with the fields below,
\* each a string or undefined (the id, which the provider only copies, is
\* left out of one payload that is complete otherwise)
PayloadChoices ==
    [id        : {"s1"},
     timestamp : {Undefined, "1970-01-02T00:00:00Z", "1970-01-10T00:00:00Z"},
     cwd       : {Undefined, "/a", "/w/b"}]
    \cup {[id |-> Undefined, timestamp |-> "1970-01-02T00:00:00Z", cwd |-> "/a"]}

NoPayload == [id |-> Undefined, timestamp |-> Undefined, cwd |-> Undefined]

FirstLine(kind, type, hasPayload, payload) ==
    [kind |-> kind, type |-> type, hasPayload |-> hasPayload, payload |-> payload]

FirstLineChoices ==
    {FirstLine("invalid", "none", FALSE, NoPayload),
     FirstLine("event", "not_session_meta", FALSE, NoPayload),
     FirstLine("event", "not_session_meta", TRUE,
               [id |-> "s1", timestamp |-> "1970-01-10T00:00:00Z", cwd |-> "/a"]),
     FirstLine("event", "session_meta", FALSE, NoPayload)}
    \cup {FirstLine("event", "session_meta", TRUE, p) : p \in PayloadChoices}

\* what the walk of year/month/day directories meets, in walk order: a file
\* whose name ends in .jsonl or does not
FileChoices ==
    {[jsonl |-> FALSE, line |-> FirstLine("invalid", "none", FALSE, NoPayload)]}
    \cup {[jsonl |-> TRUE, line |-> l] : l \in FirstLineChoices}

\* mutant of Accepted: the type of the first event is not tested
AcceptedAnyType(file) ==
    /\ file.line.kind = "event"
    /\ file.line.hasPayload

\* parseSessionFile accepts the file: it returns a record, not null
Accepted(file) ==
    /\ file.line.kind = "event"
    /\ file.line.type = "session_meta"
    /\ file.line.hasPayload

\* the record parseSessionFile returns for an accepted file
SessionRecord(file) ==
    [id        |-> file.line.payload.id,
     timestamp |-> file.line.payload.timestamp,
     cwd       |-> file.line.payload.cwd,
     filePath  |-> file.name]

\* the walk of getSessions: the records of the accepted .jsonl files
RECURSIVE CollectSessions(_)
CollectSessions(files) ==
    IF files = <<>> THEN <<>>
    ELSE LET f == Head(files)
         IN  IF f.jsonl /\ Accepted(f)
             THEN <<SessionRecord(f)>> \o CollectSessions(Tail(files))
             ELSE CollectSessions(Tail(files))

\* new Date(s.timestamp).getTime()
SessionTimestamp(s) == DateTime(s.timestamp)

\* sessions.sort((a, b) => new Date(b.timestamp) - new Date(a.timestamp))
SortByTimestamp(sessions) ==
    Unkeyed(ArraySort([i \in 1..Len(sessions) |->
                          [k |-> SessionTimestamp(sessions[i]), v |-> sessions[i]]]))

\* mutant of CodexSessions: the array of sessions is kept from one call of
\* getSessions to the next
CodexSessionsKept(fs) ==
    IF ~fs.exists THEN <<>>
    ELSE SortByTimestamp((IF ret.op = "codex.getSessions" THEN ret.value ELSE <<>>)
                         \o CollectSessions(fs.files))

CodexSessions(fs) ==
    IF ~fs.exists THEN <<>>
    ELSE SortByTimestamp(CollectSessions(fs.files))

\* the place of the project of path p in the map, 0 when it has none
ProjectIndex(projects, p) ==
    IF \E i \in 1..Len(projects) : projects[i].path = p
    THEN CHOOSE i \in 1..Len(projects) : projects[i].path = p
    ELSE 0

\* one round of the loop of getProjects over the sorted sessions; the map
\* keeps its projects in the order of their insertion
AddToProject(projects, session) ==
    LET at     == ProjectIndex(projects, session.cwd)
        fresh  == [name          |-> Basename(session.cwd),
                   path          |-> session.cwd,
                   sessions      |-> <<>>,
                   totalSessions |-> 0,
                   lastModified  |-> Epoch]
        map    == IF at = 0 THEN Append(projects, fresh) ELSE projects
        i      == IF at = 0 THEN Len(map) ELSE at
        date   == DateTime(session.timestamp)
    IN  [map EXCEPT ![i] =
            [@ EXCEPT !.sessions      = Append(@, session),
                      !.totalSessions = @ + 1,
                      !.lastModified  = IF JsGreater(date, @) THEN date ELSE @]]

RECURSIVE GroupSessions(_, _)
GroupSessions(projects, sessions) ==
    IF sessions = <<>> THEN projects
    ELSE GroupSessions(AddToProject(projects, Head(sessions)), Tail(sessions))

\* path.basename(session.cwd) throws a TypeError when cwd is no string
CodexProjectsThrows(sessions) ==
    \E i \in 1..Len(sessions) : sessions[i].cwd = Undefined

CodexProjects(sessions) == SortProjects(GroupSessions(<<>>, sessions))

DaysPerWeek == 7

\* sessions.filter((s) => new Date(s.timestamp) > weekAgo).length
RecentSessions(sessions, clock) ==
    Cardinality({i \in 1..Len(sessions) :
        JsGreater(DateTime(sessions[i].timestamp), clock - DaysPerWeek * MsPerDay)})

CodexGetSessions ==
    /\ ret' = Returned("codex.getSessions", CodexSessions(codexFs))
    /\ UNCHANGED <<claudeFs, codexFs, statsFile, now>>
    /\ UNCHANGED <<utcOffset, historyFile, extension, dashboard>>

CodexGetProjects ==
    /\ LET sessions == CodexSessions(codexFs)
       IN  ret' = IF CodexProjectsThrows(sessions)
                  THEN Threw("codex.getProjects")
                  ELSE Returned("codex.getProjects", CodexProjects(sessions))
    /\ UNCHANGED <<claudeFs, codexFs, statsFile, now>>
    /\ UNCHANGED <<utcOffset, historyFile, extension, dashboard>>

CodexGetRecentStats ==
    /\ LET sessions == CodexSessions(codexFs)
       IN  ret' = Returned("codex.getRecentStats",
                           [totalSessions  |-> Len(sessions),
                            recentSessions |-> RecentSessions(sessions, now)])
    /\ UNCHANGED <<claudeFs, codexFs, statsFile, now>>
    /\ UNCHANGED <<utcOffset, historyFile, extension, dashboard>>

(* The Codex CLI, writing under ~/.codex/sessions *)

CodexMkdir ==
    /\ ~codexFs.exists /\ ~claudeFs.exists
    /\ codexFs' = [exists |-> TRUE, files |-> <<>>]
    /\ ret' = NoReturn
    /\ UNCHANGED <<claudeFs, statsFile, now>>
    /\ UNCHANGED <<utcOffset, historyFile, extension, dashboard>>

CodexCreateFile ==
    /\ codexFs.exists
    /\ Len(codexFs.files) < MaxFiles
    /\ \E f \in FileChoices :
          codexFs' = [codexFs EXCEPT !.files =
              Append(@, [name |-> Len(@) + 1, jsonl |-> f.jsonl, line |-> f.line])]
    /\ ret' = NoReturn
    /\ UNCHANGED <<claudeFs, statsFile, now>>
    /\ UNCHANGED <<utcOffset, historyFile, extension, dashboard>>

----------------------------------------------------------------------------
(* The agent CLIs, writing under ~/.claude/projects *)

ClaudeMkdir ==
    /\ ~claudeFs.exists /\ ~codexFs.exists
    /\ claudeFs' = [exists |-> TRUE, entries |-> <<>>]
    /\ ret' = NoReturn
    /\ UNCHANGED <<codexFs, statsFile, now>>
    /\ UNCHANGED <<utcOffset, historyFile, extension, dashboard>>

ClaudeCreateEntry ==
    /\ claudeFs.exists
    /\ ClaudeWrites < MaxWrites
    /\ \E e \in EntryChoices :
          claudeFs' = [claudeFs EXCEPT !.entries =
              Append(@, [name        |-> ToString(Len(@) + 1),
                         isDirectory |-> e.isDirectory,
                         index       |-> e.index])]
    /\ ret' = NoReturn
    /\ UNCHANGED <<codexFs, statsFile, now>>
    /\ UNCHANGED <<utcOffset, historyFile, extension, dashboard>>

\* working directories the CLI is run in: with and without a hyphen
WorkingDirs == {"/a", "/w/b", "/my-app", "/w/c-d"}

\* the name of the project directory of a working directory: each '/' of the
\* path written as '-'
EscapePath(cwd) == ReplaceAll(cwd, "/", "-", 1)

\* the CLI run in a working directory for the first time: the project
\* directory of the escaped name, with an index file that carries
\* originalPath or (older versions) does not; cwd remembers the directory
ClaudeCreateProject ==
    /\ claudeFs.exists
    /\ ClaudeWrites < MaxWrites
    /\ \E cwd \in WorkingDirs, hasOriginalPath \in BOOLEAN :
          /\ \A i \in 1..Len(claudeFs.entries) :
                claudeFs.entries[i].name # EscapePath(cwd)
          /\ claudeFs' = [claudeFs EXCEPT !.entries =
                Append(@, [name        |-> EscapePath(cwd),
                           isDirectory |-> TRUE,
                           index       |->
                               [IndexFile("ok", TRUE, FALSE) EXCEPT
                                   !.originalPath =
                                       IF hasOriginalPath THEN cwd ELSE Undefined],
                           cwd         |-> cwd])]
    /\ ret' = NoReturn
    /\ UNCHANGED <<codexFs, statsFile, now>>
    /\ UNCHANGED <<utcOffset, historyFile, extension, dashboard>>

ClaudeWriteSession ==
    /\ ClaudeWrites < MaxWrites
    /\ \E i \in 1..Len(claudeFs.entries), data \in SessionData :
          LET ix == claudeFs.entries[i].index
          IN  /\ ix.state = "ok"
              /\ \/ /\ ix.hasEntries
                    /\ claudeFs' = [claudeFs EXCEPT !.entries[i].index.entries =
                                        Append(@, NewSession(@, data))]
                 \/ /\ ix.hasSessions
                    /\ claudeFs' = [claudeFs EXCEPT !.entries[i].index.sessions =
                                        Append(@, NewSession(@, data))]
    /\ ret' = NoReturn
    /\ UNCHANGED <<codexFs, statsFile, now>>
    /\ UNCHANGED <<utcOffset, historyFile, extension, dashboard>>


----------------------------------------------------------------------------
(* ClaudeDataProvider.getStats and getTodayStats *)

\* A calendar date "YYYY-MM-DD" is modelled by the number of its day, day 0
\* being 1970-01-01; the code only tests date strings for equality.

\* new Date().toISOString().split('T')[0]: the date of the clock in UTC
IsoDate(clock) == clock \div MsPerDay

\* stats-cache.json: absent, unparseable, or parsed; dailyActivity and
\* dailyModelTokens are lists or absent, modelUsage is an object or absent,
\* its keys in the order Object.entries gives them
StatsFile(state, hasActivity, hasTokens, hasUsage) ==
    [state               |-> state,
     hasDailyActivity    |-> hasActivity, dailyActivity    |-> <<>>,
     hasDailyModelTokens |-> hasTokens,   dailyModelTokens |-> <<>>,
     hasModelUsage       |-> hasUsage,    modelUsage       |-> <<>>]

StatsAbsent == StatsFile("absent", FALSE, FALSE, FALSE)

StatsFileChoices ==
    {StatsFile("invalid", FALSE, FALSE, FALSE)}
    \cup {StatsFile("ok", a, t, u) : a, t, u \in BOOLEAN}

EntryDays == {1, 2}

DailyActivityChoices ==
    {[date |-> d, messageCount |-> c[1], sessionCount |-> c[2], toolCallCount |-> c[3]]
     : d \in EntryDays, c \in {<<0, 0, 0>>, <<3, 1, 2>>, <<5, 2, 4>>}}

\* tokensByModel: absent, or an object from model names to token counts
TokensByModelChoices ==
    {[has |-> FALSE, counts |-> <<>>],
     [has |-> TRUE,  counts |-> <<>>],
     [has |-> TRUE,  counts |-> <<[model |-> "claude-opus-4", tokens |-> 10]>>],
     [has |-> TRUE,  counts |-> <<[model |-> "claude-opus-4", tokens |-> 10],
                                  [model |-> "claude-sonnet-4", tokens |-> 20]>>]}

DailyModelTokensChoices ==
    {[date |-> d, hasTokensByModel |-> t.has, tokensByModel |-> t.counts]
     : d \in EntryDays, t \in TokensByModelChoices}

\* getStats: null when the file is absent or does not parse
StatsIsNull(file) == file.state # "ok"

\* list.find((d) => d.date === date): the place of the first entry of the
\* date, 0 when there is none
FindDate(list, date) ==
    IF \E i \in 1..Len(list) : list[i].date = date
    THEN CHOOSE i \in 1..Len(list) :
            /\ list[i].date = date
            /\ \A j \in 1..(i - 1) : list[j].date # date
    ELSE 0

\* the loop over Object.values(tokenData.tokensByModel)
SumTokens(tokenData) ==
    IF tokenData.hasTokensByModel
    THEN SumSeq([i \in 1..Len(tokenData.tokensByModel) |->
                    tokenData.tokensByModel[i].tokens])
    ELSE 0

\* tokenData?.tokensByModel summed; at = 0 stands for tokenData undefined
TotalTokensAt(tokens, at) == IF at = 0 THEN 0 ELSE SumTokens(tokens[at])

\* mutant of TodayStats: no fall back, a day without an entry gives zeros
TodayStatsNoFallback(file, clock) ==
    LET today == IsoDate(clock)
        found == IF StatsIsNull(file) \/ ~file.hasDailyActivity THEN 0
                 ELSE FindDate(file.dailyActivity, today)
    IN  IF found = 0
        THEN [messages |-> 0, sessions |-> 0, toolCalls |-> 0,
              totalTokens |-> 0, date |-> today]
        ELSE [messages    |-> file.dailyActivity[found].messageCount,
              sessions    |-> file.dailyActivity[found].sessionCount,
              toolCalls   |-> file.dailyActivity[found].toolCallCount,
              totalTokens |->
                  TotalTokensAt(file.dailyModelTokens,
                                IF file.hasDailyModelTokens
                                THEN FindDate(file.dailyModelTokens, today) ELSE 0),
              date        |-> today]

\* the snapshot getTodayStats returns
TodayStats(file, clock) ==
    LET today == IsoDate(clock)
    IN  IF StatsIsNull(file) \/ ~file.hasDailyActivity \/ Len(file.dailyActivity) = 0
        THEN [messages |-> 0, sessions |-> 0, toolCalls |-> 0,
              totalTokens |-> 0, date |-> today]
        ELSE
        LET activity   == file.dailyActivity
            tokens     == file.dailyModelTokens
            found      == FindDate(activity, today)
            \* stats.dailyModelTokens?.find(...), ?.[length - 1]
            tokenToday == IF file.hasDailyModelTokens THEN FindDate(tokens, today) ELSE 0
            tokenLast  == IF file.hasDailyModelTokens THEN Len(tokens) ELSE 0
            at         == IF found # 0 THEN found ELSE Len(activity)
            tokenAt    == IF found # 0 THEN tokenToday ELSE tokenLast
        \* activity?.messageCount || 0 and activity?.date || today: the
        \* entry is defined, and its date is no empty string
        IN  [messages    |-> activity[at].messageCount,
             sessions    |-> activity[at].sessionCount,
             toolCalls   |-> activity[at].toolCallCount,
             totalTokens |-> TotalTokensAt(tokens, tokenAt),
             date        |-> IF found # 0 THEN today ELSE activity[at].date]

GetTodayStats ==
    /\ ret' = Returned("claude.getTodayStats", TodayStats(statsFile, now))
    /\ UNCHANGED <<claudeFs, codexFs, statsFile, now>>
    /\ UNCHANGED <<utcOffset, historyFile, extension, dashboard>>

(* ClaudeDataProvider.getModelUsage *)

\* the raw model identifiers stats-cache.json is written with
ModelIds ==
    {"claude-opus-4", "claude-3-opus", "sonnet-opus", "haiku-sonnet",
     "claude-3-haiku", "gpt-4o", "gemini"}

\* a TokenUsage; inputTokens may be absent
TokenUsageChoices ==
    {[hasInputTokens |-> TRUE,  inputTokens |-> 100, outputTokens |-> 10],
     [hasInputTokens |-> FALSE, inputTokens |-> 0,   outputTokens |-> 20]}

ModelUsageChoices ==
    {[model |-> m, usage |-> u] : m \in ModelIds, u \in TokenUsageChoices}

\* String.prototype.includes
Includes(s, sub) ==
    \E i \in 1..(Len(s) - Len(sub) + 1) : SubSeq(s, i, i + Len(sub) - 1) = sub

\* s.split('-')[0]: what precedes the first hyphen, all of s when it has none
FirstSegment(s) ==
    LET hyphens == {i \in 1..Len(s) : SubSeq(s, i, i) = "-"}
    IN  IF hyphens = {} THEN s
        ELSE SubSeq(s, 1, (CHOOSE i \in hyphens : \A j \in hyphens : i <= j) - 1)

\* mutant of getShortModelName: sonnet is looked for before opus
ShortModelNameSonnetFirst(fullName) ==
    IF Includes(fullName, "sonnet") THEN "Sonnet"
    ELSE IF Includes(fullName, "opus") THEN "Opus"
    ELSE IF Includes(fullName, "haiku") THEN "Haiku"
    ELSE FirstSegment(fullName)

getShortModelName(fullName) ==
    IF Includes(fullName, "opus") THEN "Opus"
    ELSE IF Includes(fullName, "sonnet") THEN "Sonnet"
    ELSE IF Includes(fullName, "haiku") THEN "Haiku"
    ELSE FirstSegment(fullName)

\* the object {}
EmptyObject == [k \in {} |-> 0]

\* result[key] = value
SetKey(result, key, value) ==
    [k \in (DOMAIN result) \cup {key} |-> IF k = key THEN value ELSE result[k]]

\* usage.inputTokens || 0
InputOrZero(usage) == IF usage.hasInputTokens THEN usage.inputTokens ELSE 0

\* the loop over Object.entries(stats.modelUsage)
RECURSIVE ModelUsageLoop(_, _)
ModelUsageLoop(result, entries) ==
    IF entries = <<>> THEN result
    ELSE LET e == Head(entries)
         IN  ModelUsageLoop(
                 SetKey(result, getShortModelName(e.model),
                        [input |-> InputOrZero(e.usage), output |-> e.usage.outputTokens]),
                 Tail(entries))

\* mutant of ModelUsage: a stats file that is null is read all the same
ModelUsageOfNull(file) ==
    IF ~file.hasModelUsage THEN Threw("claude.getModelUsage")
    ELSE Returned("claude.getModelUsage", ModelUsageLoop(EmptyObject, file.modelUsage))

\* getModelUsage: {} when !stats?.modelUsage
ModelUsage(file) ==
    IF StatsIsNull(file) \/ ~file.hasModelUsage
    THEN Returned("claude.getModelUsage", EmptyObject)
    ELSE Returned("claude.getModelUsage", ModelUsageLoop(EmptyObject, file.modelUsage))

GetModelUsage ==
    /\ ret' = ModelUsage(statsFile)
    /\ UNCHANGED <<claudeFs, codexFs, statsFile, now>>
    /\ UNCHANGED <<utcOffset, historyFile, extension, dashboard>>

(* Claude Code, writing stats-cache.json, and the clock *)

StatsEntries ==
    Len(statsFile.dailyActivity) + Len(statsFile.dailyModelTokens)
    + Len(statsFile.modelUsage)

\* a key is added to modelUsage; the keys of an object are distinct
StatsWriteUsage ==
    /\ statsFile.state = "ok" /\ statsFile.hasModelUsage
    /\ StatsEntries < MaxDaily
    /\ \E e \in ModelUsageChoices :
          /\ \A i \in 1..Len(statsFile.modelUsage) : statsFile.modelUsage[i].model # e.model
          /\ statsFile' = [statsFile EXCEPT !.modelUsage = Append(@, e)]
    /\ ret' = NoReturn
    /\ UNCHANGED <<claudeFs, codexFs, now>>
    /\ UNCHANGED <<utcOffset, historyFile, extension, dashboard>>

StatsCreate ==
    /\ statsFile.state = "absent"
    /\ statsFile' \in StatsFileChoices
    /\ ret' = NoReturn
    /\ UNCHANGED <<claudeFs, codexFs, now>>
    /\ UNCHANGED <<utcOffset, historyFile, extension, dashboard>>

StatsWriteActivity ==
    /\ statsFile.state = "ok" /\ statsFile.hasDailyActivity
    /\ StatsEntries < MaxDaily
    /\ \E e \in DailyActivityChoices :
          statsFile' = [statsFile EXCEPT !.dailyActivity = Append(@, e)]
    /\ ret' = NoReturn
    /\ UNCHANGED <<claudeFs, codexFs, now>>
    /\ UNCHANGED <<utcOffset, historyFile, extension, dashboard>>

StatsWriteTokens ==
    /\ statsFile.state = "ok" /\ statsFile.hasDailyModelTokens
    /\ StatsEntries < MaxDaily
    /\ \E e \in DailyModelTokensChoices :
          statsFile' = [statsFile EXCEPT !.dailyModelTokens = Append(@, e)]
    /\ ret' = NoReturn
    /\ UNCHANGED <<claudeFs, codexFs, now>>
    /\ UNCHANGED <<utcOffset, historyFile, extension, dashboard>>

\* a day passes
ClockTick ==
    /\ IsoDate(now) < MaxDay
    /\ now' = now + MsPerDay
    /\ ret' = NoReturn
    /\ UNCHANGED <<claudeFs, codexFs, statsFile>>
    /\ UNCHANGED <<utcOffset, historyFile, extension, dashboard>>

(* the clock within a day, and the time zone *)

MsPerHour == 3600000

\* the UTC offsets of the machines the extension runs on
UtcOffsets == {(0 - 5) * MsPerHour, 0, 9 * MsPerHour}

\* six hours pass
ZoneTick ==
    /\ IsoDate(now) < MaxDay
    /\ now' = now + 6 * MsPerHour
    /\ ret' = NoReturn
    /\ UNCHANGED <<claudeFs, codexFs, statsFile>>
    /\ UNCHANGED <<utcOffset, historyFile, extension, dashboard>>

----------------------------------------------------------------------------
(* formatRelativeTime, of ClaudeDataProvider and of CodexDataProvider *)

MsPerMinute == 60000

\* a call with an argument, and what it returned
ReturnedFor(op, arg, value) ==
    [op |-> op, threw |-> FALSE, value |-> value, arg |-> arg]

\* date.toLocaleDateString() in the locale en-US: month/day/year of the date
\* in the time zone of the machine; the dates of the model are of January 1970
LocaleDateString(date, offset) ==
    IF IsNaN(date) THEN "Invalid Date"
    ELSE "1/" \o ToString((date + offset) \div MsPerDay + 1) \o "/1970"

\* mutant of FormatRelativeTime: Math.round for Math.floor, the differences
\* are rounded to the nearest whole unit
FormatRelativeTimeRounded(date, clock, offset) ==
    LET diffMs    == clock - date
        diffMins  == (2 * diffMs + MsPerMinute) \div (2 * MsPerMinute)
        diffHours == (2 * diffMs + MsPerHour) \div (2 * MsPerHour)
        diffDays  == (2 * diffMs + MsPerDay) \div (2 * MsPerDay)
    IN  IF IsNaN(date) THEN LocaleDateString(date, offset)
        ELSE IF diffMins < 1 THEN "just now"
        ELSE IF diffMins < 60 THEN ToString(diffMins) \o "m ago"
        ELSE IF diffHours < 24 THEN ToString(diffHours) \o "h ago"
        ELSE IF diffDays < 7 THEN ToString(diffDays) \o "d ago"
        ELSE LocaleDateString(date, offset)

\* mutant of FormatRelativeTime: the thresholds are inclusive
FormatRelativeTimeInclusive(date, clock, offset) ==
    LET diffMs    == clock - date
        diffMins  == diffMs \div MsPerMinute
        diffHours == diffMs \div MsPerHour
        diffDays  == diffMs \div MsPerDay
    IN  IF IsNaN(date) THEN LocaleDateString(date, offset)
        ELSE IF diffMins < 1 THEN "just now"
        ELSE IF diffMins <= 60 THEN ToString(diffMins) \o "m ago"
        ELSE IF diffHours <= 24 THEN ToString(diffHours) \o "h ago"
        ELSE IF diffDays <= 7 THEN ToString(diffDays) \o "d ago"
        ELSE LocaleDateString(date, offset)

\* formatRelativeTime(date) at the clock: Math.floor(diffMs / unit) is the
\* quotient rounded down; with an Invalid Date every difference is NaN and
\* every comparison false
FormatRelativeTime(date, clock, offset) ==
    LET diffMs    == clock - date
        diffMins  == diffMs \div MsPerMinute
        diffHours == diffMs \div MsPerHour
        diffDays  == diffMs \div MsPerDay
    IN  IF IsNaN(date) THEN LocaleDateString(date, offset)
        ELSE IF diffMins < 1 THEN "just now"
        ELSE IF diffMins < 60 THEN ToString(diffMins) \o "m ago"
        ELSE IF diffHours < 24 THEN ToString(diffHours) \o "h ago"
        ELSE IF diffDays < 7 THEN ToString(diffDays) \o "d ago"
        ELSE LocaleDateString(date, offset)

\* the ages of the dates formatted: around every threshold, to the millisecond
ElapsedChoices ==
    {0, 59000, 0 - MsPerMinute}
    \cup {k * MsPerMinute + e : k \in {1, 2, 59, 60}, e \in {0 - 1, 0, 1}}
    \cup {k * MsPerHour + e   : k \in {2, 23, 24}, e \in {0 - 1, 0, 1}}
    \cup {k * MsPerDay + e    : k \in {2, 6, 7, 8}, e \in {0 - 1, 0, 1}}

\* the Date objects formatRelativeTime is given: of an age, or invalid
DateChoices == {now - d : d \in ElapsedChoices} \cup {NaN}

\* the times of day of the calls
ClockChoices == {10 * MsPerDay, 10 * MsPerDay + 12 * MsPerHour + 30000}

ClaudeFormatRelativeTime ==
    /\ \E date \in DateChoices :
          ret' = ReturnedFor("claude.formatRelativeTime", date,
                             FormatRelativeTime(date, now, utcOffset))
    /\ UNCHANGED <<claudeFs, codexFs, statsFile, now>>
    /\ UNCHANGED <<utcOffset, historyFile, extension, dashboard>>

CodexFormatRelativeTime ==
    /\ \E date \in DateChoices :
          ret' = ReturnedFor("codex.formatRelativeTime", date,
                             FormatRelativeTime(date, now, utcOffset))
    /\ UNCHANGED <<claudeFs, codexFs, statsFile, now>>
    /\ UNCHANGED <<utcOffset, historyFile, extension, dashboard>>

----------------------------------------------------------------------------
(* ClaudeDataProvider.getRecentHistory *)

\* the limit of a call without an argument
DefaultLimit == 20

\* a line of history.jsonl: the JSON text of an entry, text that is no JSON,
\* or nothing
HistoryLineChoices ==
    {[kind |-> "entry", entry |-> [display |-> d]] : d \in {"fix the test", "add a flag"}}
    \cup {[kind |-> "garbage", entry |-> [display |-> Undefined]],
          [kind |-> "empty",   entry |-> [display |-> Undefined]]}

HistoryAbsent == [exists |-> FALSE, readable |-> FALSE, lines |-> <<>>]

\* filter(Boolean) on strings: the empty string goes
IsTruthy(line) == line.kind # "empty"

\* JSON.parse(line) does not throw
Parses(line) == line.kind = "entry"

\* array.slice(start)
Slice(array, start) ==
    LET len  == Len(array)
        from == IF start < 0
                THEN (IF len + start > 0 THEN len + start ELSE 0)
                ELSE (IF start < len THEN start ELSE len)
    IN  SubSeq(array, from + 1, len)

\* the loop of JSON.parse over lines, a line that throws skipped
RECURSIVE ParseLines(_)
ParseLines(lines) ==
    IF lines = <<>> THEN <<>>
    ELSE IF Parses(Head(lines))
         THEN <<Head(lines).entry>> \o ParseLines(Tail(lines))
         ELSE ParseLines(Tail(lines))

\* getRecentHistory(limit): [] when the file is absent or the read throws.
\* content.trim() takes the empty lines at either end, which filter(Boolean)
\* takes as well.
RecentHistory(file, limit) ==
    IF ~file.exists \/ ~file.readable THEN <<>>
    ELSE Reverse(ParseLines(Slice(SelectSeq(file.lines, IsTruthy), 0 - limit)))

GetRecentHistory ==
    /\ \E limit \in (0..MaxLimit) \cup {DefaultLimit} :
          ret' = ReturnedFor("claude.getRecentHistory", limit,
                             RecentHistory(historyFile, limit))
    /\ UNCHANGED <<claudeFs, codexFs, statsFile, now>>
    /\ UNCHANGED <<utcOffset, historyFile, extension, dashboard>>

(* Claude Code, writing history.jsonl *)

HistoryCreate ==
    /\ ~historyFile.exists
    /\ \E r \in BOOLEAN : historyFile' = [exists |-> TRUE, readable |-> r, lines |-> <<>>]
    /\ ret' = NoReturn
    /\ UNCHANGED <<claudeFs, codexFs, statsFile, now>>
    /\ UNCHANGED <<utcOffset, extension, dashboard>>

HistoryAppend ==
    /\ historyFile.exists /\ historyFile.readable
    /\ Len(historyFile.lines) < MaxLines
    /\ \E line \in HistoryLineChoices :
          historyFile' = [historyFile EXCEPT !.lines = Append(@, line)]
    /\ ret' = NoReturn
    /\ UNCHANGED <<claudeFs, codexFs, statsFile, now>>
    /\ UNCHANGED <<utcOffset, extension, dashboard>>

----------------------------------------------------------------------------
(* extension.ts: activate, setupFileWatchers, deactivate *)

\* the delay of the debounce timer, in ms
DebounceMs == 1000

\* the step of the clock of the timers
TickMs == DebounceMs \div 4

Watchers == {"claude", "codex"}

EventKinds == {"change", "create", "delete"}

NoEvent == [watcher |-> "none", kind |-> "none"]

\* The module after activate().  timers is the table of the timeouts set and
\* neither run nor cleared, each with the time left to it; debounceTimer is
\* the handle the closure holds, 0 for undefined.  A tree is stale for the
\* watchers of which an event came after its last refresh.  sinceEvent is
\* the time since the most recent file event (DebounceMs stands for that or
\* more), burstRefreshes the number of debounced refreshes since the first
\* event of the burst: an event that comes DebounceMs or more after the one
\* before it starts a burst.  burstEvents is 1 when the burst has one event
\* and 2 when it has more.
Activated(codexAvailable) ==
    [active            |-> TRUE,
     claudeFileWatcher |-> "watching",
     codexFileWatcher  |-> IF codexAvailable THEN "watching" ELSE "undefined",
     timers            |-> {},
     debounceTimer     |-> 0,
     sessionTreeStale  |-> {},
     statsTreeStale    |-> {},
     lastEvent         |-> NoEvent,
     sinceEvent        |-> DebounceMs,
     burstEvents       |-> 0,
     burstRefreshes    |-> 0]

\* a timeout has run down
Due(ext) == {t \in ext.timers : t.remaining = 0}

\* clearTimeout(handle)
ClearTimeout(timers, handle) == {t \in timers : t.id # handle}

\* the handle setTimeout returns: one no timeout of the table has
NewHandle(timers) ==
    CHOOSE id \in 1..(Cardinality(timers) + 1) : \A t \in timers : t.id # id

\* mutant of DebouncedRefresh: the timeout set before is not cleared
DebouncedRefreshNoClear(ext) ==
    LET handle == NewHandle(ext.timers)
    IN  [ext EXCEPT !.timers = ext.timers \cup {[id |-> handle, remaining |-> DebounceMs]},
                    !.debounceTimer = handle]

\* debouncedRefresh(): the timeout set before is cleared, a new one is set
DebouncedRefresh(ext) ==
    LET cleared == IF ext.debounceTimer # 0
                   THEN ClearTimeout(ext.timers, ext.debounceTimer)
                   ELSE ext.timers
        handle  == NewHandle(cleared)
    IN  [ext EXCEPT !.timers = cleared \cup {[id |-> handle, remaining |-> DebounceMs]},
                    !.debounceTimer = handle]

\* mutant of RefreshTrees: the stats tree is left out
RefreshSessionTreeOnly(ext) ==
    [ext EXCEPT !.sessionTreeStale = {}]

\* sessionTreeProvider.refresh(); statsTreeProvider.refresh()
RefreshTrees(ext) ==
    [ext EXCEPT !.sessionTreeStale = {}, !.statsTreeStale = {}]

\* A watcher that is not disposed reports a change, a creation or a deletion
\* of a file of its pattern, and debouncedRefresh runs.  The event loop runs
\* the timeouts that are due before it takes an event.
FileEvent ==
    /\ Due(extension) = {}
    /\ \E w \in Watchers, kind \in EventKinds :
          /\ w = "claude" => extension.claudeFileWatcher = "watching"
          /\ w = "codex" => extension.codexFileWatcher = "watching"
          /\ extension' =
                [DebouncedRefresh(extension) EXCEPT
                    !.sessionTreeStale = @ \cup {w},
                    !.statsTreeStale = @ \cup {w},
                    !.lastEvent = [watcher |-> w, kind |-> kind],
                    !.sinceEvent = 0,
                    !.burstEvents =
                        IF extension.sinceEvent >= DebounceMs THEN 1 ELSE 2,
                    !.burstRefreshes =
                        IF extension.sinceEvent >= DebounceMs THEN 0 ELSE @]
    /\ UNCHANGED <<claudeFs, codexFs, statsFile, now, ret>>
    /\ UNCHANGED <<utcOffset, historyFile, dashboard>>

\* TickMs pass, no timeout being due
Tick ==
    /\ Due(extension) = {}
    /\ extension' =
          [extension EXCEPT
              !.timers = {[t EXCEPT !.remaining = @ - TickMs] : t \in @},
              !.sinceEvent = IF @ + TickMs < DebounceMs THEN @ + TickMs ELSE DebounceMs]
    /\ UNCHANGED <<claudeFs, codexFs, statsFile, now, ret>>
    /\ UNCHANGED <<utcOffset, historyFile, dashboard>>

\* a timeout that is due runs: the callback of debouncedRefresh
TimerFire ==
    /\ \E t \in Due(extension) :
          extension' =
              [RefreshTrees(extension) EXCEPT
                  !.timers = @ \ {t},
                  !.burstRefreshes = @ + 1]
    /\ UNCHANGED <<claudeFs, codexFs, statsFile, now, ret>>
    /\ UNCHANGED <<utcOffset, historyFile, dashboard>>

\* the command codeAgentMonitor.refresh
RefreshCommand ==
    /\ extension.active
    /\ extension' = RefreshTrees(extension)
    /\ UNCHANGED <<claudeFs, codexFs, statsFile, now, ret>>
    /\ UNCHANGED <<utcOffset, historyFile, dashboard>>

\* deactivate(): the watchers are disposed, and the editor disposes the
\* subscriptions of the context, the commands among them
Deactivate ==
    /\ extension.active
    /\ extension' =
          [extension EXCEPT
              !.active = FALSE,
              !.claudeFileWatcher = "disposed",
              !.codexFileWatcher = IF @ = "undefined" THEN @ ELSE "disposed"]
    /\ UNCHANGED <<claudeFs, codexFs, statsFile, now, ret>>
    /\ UNCHANGED <<utcOffset, historyFile, dashboard>>

----------------------------------------------------------------------------
(* DashboardPanel *)

\* The webview panels of the editor are numbered as they are created; live
\* holds those not disposed.  currentPanel is the static field, 0 for
\* undefined, else the panel of the DashboardPanel it refers to.  updating
\* counts, for each panel, the calls of update() that have not finished.
\* last is what the most recent step of the dashboard did.
NoDashboard ==
    [created      |-> 0,
     live         |-> {},
     currentPanel |-> 0,
     updating     |-> <<>>,
     html         |-> <<>>,
     last         |-> "none"]

\* this.update() begins
BeginUpdate(d, panel) == [d EXCEPT !.updating[panel] = @ + 1]

\* createWebviewPanel and new DashboardPanel(panel, ...): the constructor
\* calls update() and subscribes to onDidDispose
CreatePanel(d) ==
    LET panel == d.created + 1
    IN  [d EXCEPT !.created = panel,
                  !.live = @ \cup {panel},
                  !.updating = Append(@, 1),
                  !.html = Append(@, ""),
                  !.currentPanel = panel,
                  !.last = "created"]

\* mutant of CreateOrShow: currentPanel is not looked at
CreateOrShowAlways(d) == CreatePanel(d)

\* DashboardPanel.createOrShow
CreateOrShow(d) ==
    IF d.currentPanel # 0
    THEN [BeginUpdate(d, d.currentPanel) EXCEPT !.last = "revealed"]
    ELSE CreatePanel(d)

\* dispose() of the DashboardPanel of a panel
Dispose(d, panel) ==
    [d EXCEPT !.currentPanel = 0,
              !.live = @ \ {panel},
              !.last = "disposed"]

\* the command codeAgentMonitor.openDashboard
OpenDashboard ==
    /\ extension.active
    /\ dashboard.currentPanel = 0 => dashboard.created < MaxPanels
    /\ \A p \in dashboard.live : dashboard.updating[p] < MaxUpdates
    /\ dashboard' = CreateOrShow(dashboard)
    /\ UNCHANGED <<claudeFs, codexFs, statsFile, now, ret>>
    /\ UNCHANGED <<utcOffset, historyFile, extension>>

\* the user closes a panel: onDidDispose runs dispose()
ClosePanel ==
    /\ \E panel \in dashboard.live : dashboard' = Dispose(dashboard, panel)
    /\ UNCHANGED <<claudeFs, codexFs, statsFile, now, ret>>
    /\ UNCHANGED <<utcOffset, historyFile, extension>>

\* the webview of a panel posts the message refresh
WebviewRefresh ==
    /\ \E panel \in dashboard.live :
          /\ dashboard.updating[panel] < MaxUpdates
          /\ dashboard' = [BeginUpdate(dashboard, panel) EXCEPT !.last = "refresh"]
    /\ UNCHANGED <<claudeFs, codexFs, statsFile, now, ret>>
    /\ UNCHANGED <<utcOffset, historyFile, extension>>

\* this.panel.webview.html = this.getHtmlContent(...), the last statement
\* of update(): the webview takes the value
AssignHtml(d, panel) ==
    [d EXCEPT !.html[panel] = "content",
              !.updating[panel] = @ - 1,
              !.last = "updated"]

\* the same statement when the host rejects it (on a panel that has been
\* disposed the host may throw "Webview is disposed"): update() rejects and
\* the html is left as it was
AssignThrows(d, panel) ==
    [d EXCEPT !.updating[panel] = @ - 1,
              !.last = "threw"]

\* a call of update() comes to its end, after the awaits of the providers:
\* nothing in update() looks whether the panel is still there, and what the
\* host does with the html of a disposed panel is the host's choice
UpdateDone ==
    /\ \E panel \in 1..dashboard.created :
          /\ dashboard.updating[panel] > 0
          /\ \/ dashboard' = AssignHtml(dashboard, panel)
             \/ /\ panel \notin dashboard.live
                /\ dashboard' = AssignThrows(dashboard, panel)
    /\ UNCHANGED <<claudeFs, codexFs, statsFile, now, ret>>
    /\ UNCHANGED <<utcOffset, historyFile, extension>>

----------------------------------------------------------------------------
(* DashboardPanel: the projects of both agents, merged and rendered *)

\* projects.slice(0, 15)
RenderCap == 15

\* { ...project, source: source, sortDate: project.lastModified }
Tagged(project, source) ==
    [f \in DOMAIN project \cup {"source", "sortDate"} |->
        IF f = "source" THEN source
        ELSE IF f = "sortDate" THEN project.lastModified
        ELSE project[f]]

\* mutant of SortMerged: merged is returned as it was filled
SortMergedMissing(merged) == merged

\* merged.sort((a, b) => dateB.getTime() - dateA.getTime()), the dates those
\* of sortDate
SortMerged(merged) ==
    Unkeyed(ArraySort([i \in 1..Len(merged) |->
                          [k |-> merged[i].sortDate, v |-> merged[i]]]))

\* mergeProjects: a new array is filled with a copy of every project of the
\* two lists and sorted; the lists given are read only
mergeProjects(claudeProjects, codexProjects) ==
    SortMerged([i \in 1..Len(claudeProjects) |-> Tagged(claudeProjects[i], "claude")]
               \o [i \in 1..Len(codexProjects) |-> Tagged(codexProjects[i], "codex")])

\* array.slice(0, end)
SliceTo(array, end) ==
    SubSeq(array, 1, IF Len(array) < end THEN Len(array) ELSE end)

\* the item rendered for one project: its name, the badge of its source, the
\* counts of the line below the name, and the relative time
RenderedItem(project, clock, offset) ==
    LET isClaude == project.source = "claude"
    IN  [project |-> project.name,
         badge   |-> IF isClaude THEN "Claude" ELSE "Codex",
         meta    |-> IF isClaude
                     THEN <<Len(project.sessions), project.totalMessages>>
                     ELSE <<Len(project.sessions)>>,
         time    |-> FormatRelativeTime(project.lastModified, clock, offset)]

\* renderMergedProjectsList: the empty state, or the items of the first
\* projects of the list
renderMergedProjectsList(projects, clock, offset) ==
    IF Len(projects) = 0
    THEN [emptyState |-> TRUE, items |-> <<>>]
    ELSE LET shown == SliceTo(projects, RenderCap)
         IN  [emptyState |-> FALSE,
              items      |-> [i \in 1..Len(shown) |->
                                 RenderedItem(shown[i], clock, offset)]]

\* isAvailable() ? await getProjects() : []
CodexProjectsIfAvailable(fs) ==
    IF fs.exists THEN CodexProjects(CodexSessions(fs)) ELSE <<>>

\* update(), as to the list of projects: the projects of both providers are
\* read, getHtmlContent merges them and renders the merged list; arg holds
\* the two lists as they are after the call
UpdateContent ==
    /\ LET claude == ClaudeProjects(claudeFs)
       IN  ret' =
             IF claude.threw \/ (codexFs.exists /\ CodexProjectsThrows(CodexSessions(codexFs)))
             THEN Threw("dashboard.update")
             ELSE LET claudeProjects == claude.value
                      codexProjects  == CodexProjectsIfAvailable(codexFs)
                      mergedProjects == mergeProjects(claudeProjects, codexProjects)
                  IN  ReturnedFor("dashboard.update",
                          [claudeProjects |-> claudeProjects,
                           codexProjects  |-> codexProjects],
                          [mergedProjects |-> mergedProjects,
                           list |-> renderMergedProjectsList(mergedProjects,
                                                             now, utcOffset)])
    /\ UNCHANGED <<claudeFs, codexFs, statsFile, now>>
    /\ UNCHANGED <<utcOffset, historyFile, extension, dashboard>>

(* The agent CLIs at work in one project after the other *)

\* the times of the sessions of the projects the dashboard lists
ProjectTimes == {"1970-01-02T00:00:00Z", "1970-01-10T00:00:00Z"}

\* the working directory of the k-th project of an agent; the two agents are
\* run in the same directories
WorkingDir(k) == "/w/p" \o ToString(k)

\* the latest time written under ~/.claude/projects so far
LatestClaude ==
    LastModified([i \in 1..Len(claudeFs.entries) |->
                     ProjectOf(claudeFs.entries[i]).lastModified], Epoch)

\* the latest time written under ~/.codex/sessions so far
LatestCodex ==
    LastModified([i \in 1..Len(codexFs.files) |->
                     DateTime(codexFs.files[i].line.payload.timestamp)], Epoch)

\* projects of both agents written so far
ProjectsWritten == Len(claudeFs.entries) + Len(codexFs.files)

\* Claude Code is run in a new working directory: the project directory and
\* its index file with one session, no older than the sessions before it
ClaudeStartProject ==
    /\ claudeFs.exists
    /\ ProjectsWritten < MaxProjects
    /\ \E t \in ProjectTimes :
          /\ ~JsGreater(LatestClaude, DateTime(t))
          /\ claudeFs' = [claudeFs EXCEPT !.entries =
                Append(@, [name        |-> EscapePath(WorkingDir(Len(@) + 1)),
                           isDirectory |-> TRUE,
                           index       |->
                               [IndexFile("ok", TRUE, FALSE) EXCEPT
                                   !.entries = <<NewSession(<<>>,
                                       [modified |-> t, messageCount |-> 1])>>]])]
    /\ ret' = NoReturn
    /\ UNCHANGED <<codexFs, statsFile, now>>
    /\ UNCHANGED <<utcOffset, historyFile, extension, dashboard>>

\* Codex is run in a new working directory: a session file, no older than
\* the files before it
CodexStartSession ==
    /\ codexFs.exists
    /\ ProjectsWritten < MaxProjects
    /\ \E t \in ProjectTimes :
          /\ ~JsGreater(LatestCodex, DateTime(t))
          /\ codexFs' = [codexFs EXCEPT !.files =
                Append(@, [name  |-> Len(@) + 1,
                           jsonl |-> TRUE,
                           line  |-> FirstLine("event", "session_meta", TRUE,
                               [id        |-> "s" \o ToString(Len(@) + 1),
                                timestamp |-> t,
                                cwd       |-> WorkingDir(Len(@) + 1)])])]
    /\ ret' = NoReturn
    /\ UNCHANGED <<claudeFs, statsFile, now>>
    /\ UNCHANGED <<utcOffset, historyFile, extension, dashboard>>

----------------------------------------------------------------------------
(* The scanners: what the claims say of a value returned *)

ClaudeReturned == ret.op = "claude.getProjects" /\ ~ret.threw

CodexReturned(op) == ret.op = op /\ ~ret.threw

\* the times are in non-increasing order: none is followed, at any
\* distance, by a strictly later one
NonIncreasing(times) ==
    \A i, j \in 1..Len(times) : i < j => ~JsGreater(times[j], times[i])

ModifiedTimes(sessions) ==
    [k \in 1..Len(sessions) |-> SessionModified(sessions[k])]

Timestamps(sessions) ==
    [k \in 1..Len(sessions) |-> SessionTimestamp(sessions[k])]

\* C1: for every Claude project returned by getProjects, totalMessages is
\* the sum of messageCount over exactly the sessions of its sessions list.
C1_TotalMessagesIsSum ==
    ClaudeReturned =>
        \A i \in 1..Len(ret.value) :
            LET p == ret.value[i]
            IN  p.totalMessages =
                    SumSeq([k \in 1..Len(p.sessions) |-> p.sessions[k].messageCount])

\* a project whose sessions the sort reordered and whose counts differ
C1_Witness ==
    /\ ClaudeReturned
    /\ \E i \in 1..Len(ret.value) :
          LET p == ret.value[i]
          IN  /\ Len(p.sessions) >= 2
              /\ p.sessions[1].sessionId > p.sessions[2].sessionId
              /\ p.sessions[1].messageCount # p.sessions[2].messageCount
              /\ p.totalMessages > Len(p.sessions)

\* C2: the list getProjects returns (Claude and Codex) is in non-increasing
\* order of lastModified: no project is followed by one with a strictly
\* later lastModified.
C2_ProjectsNewestFirst ==
    (ClaudeReturned \/ CodexReturned("codex.getProjects")) =>
        NonIncreasing([i \in 1..Len(ret.value) |-> ret.value[i].lastModified])

\* two Claude projects of different lastModified, returned in the reverse
\* of their directory order
C2_Witness ==
    /\ ClaudeReturned
    /\ Len(ret.value) = 2
    /\ ret.value[1].escapedPath = "2"
    /\ ret.value[2].escapedPath = "1"
    /\ ret.value[1].lastModified > ret.value[2].lastModified

\* C3: within every project returned by getProjects the sessions list is in
\* non-increasing order of modification time (Claude: modified; Codex:
\* timestamp), so that sessions[1] is a most recent session of the project.
C3_SessionsNewestFirst ==
    /\ ClaudeReturned =>
          \A i \in 1..Len(ret.value) :
              NonIncreasing(ModifiedTimes(ret.value[i].sessions))
    /\ CodexReturned("codex.getProjects") =>
          \A i \in 1..Len(ret.value) :
              NonIncreasing(Timestamps(ret.value[i].sessions))

\* C4: when the Claude projects directory or the Codex sessions directory
\* does not exist, getProjects and getSessions return an empty list and do
\* not throw; a Claude project directory without sessions-index.json
\* contributes no project.
C4_MissingGivesEmpty ==
    /\ (ret.op = "claude.getProjects" /\ ~claudeFs.exists) =>
          (~ret.threw /\ ret.value = <<>>)
    /\ (ret.op \in {"codex.getSessions", "codex.getProjects"} /\ ~codexFs.exists) =>
          (~ret.threw /\ ret.value = <<>>)
    /\ ret.op = "claude.getProjects" =>
          /\ ~ret.threw
          /\ \A k \in 1..Len(claudeFs.entries) :
                claudeFs.entries[k].index.state = "absent" =>
                    \A i \in 1..Len(ret.value) :
                        ret.value[i].escapedPath # claudeFs.entries[k].name

\* getProjects has run on a directory that holds a project directory without
\* an index file next to one with an index file, and returned the latter
C4_Witness ==
    /\ ClaudeReturned
    /\ Len(ret.value) = 1
    /\ \E k \in 1..Len(claudeFs.entries) :
          /\ claudeFs.entries[k].isDirectory
          /\ claudeFs.entries[k].index.state = "absent"

\* a session-transcript file with all it takes for a complete record
WellFormed(file) ==
    /\ file.jsonl
    /\ file.line.kind = "event"
    /\ file.line.type = "session_meta"
    /\ file.line.hasPayload
    /\ file.line.payload.id # Undefined
    /\ file.line.payload.timestamp # Undefined
    /\ file.line.payload.cwd # Undefined

\* the number of projects a list holds for the directory of a name
ProjectsOf(list, name) ==
    Cardinality({i \in 1..Len(list) : list[i].escapedPath = name})

\* the number of session records a list holds for the file of a name
RecordsOf(list, name) ==
    Cardinality({i \in 1..Len(list) : list[i].filePath = name})

\* C5: an index file (Claude) or session file (Codex) that fails to read or
\* parse is skipped and the scan goes on: it has no record, and every
\* well-formed entry has its record, wherever the malformed one sits.
C5_MalformedIsSkipped ==
    /\ ret.op = "claude.getProjects" =>
          /\ ~ret.threw
          /\ \A k \in 1..Len(claudeFs.entries) :
                LET e == claudeFs.entries[k]
                    n == ProjectsOf(ret.value, e.name)
                IN  /\ (e.isDirectory /\ e.index.state = "ok") => n = 1
                    /\ e.index.state = "invalid" => n = 0
    /\ ret.op = "codex.getSessions" =>
          /\ ~ret.threw
          /\ \A k \in 1..Len(codexFs.files) :
                LET f == codexFs.files[k]
                    n == RecordsOf(ret.value, f.name)
                IN  /\ WellFormed(f) => n = 1
                    /\ f.line.kind = "invalid" => n = 0

\* an index file that does not parse comes first in the directory and the
\* project of the index file after it is returned
C5_Witness ==
    /\ ClaudeReturned
    /\ Len(claudeFs.entries) >= 2
    /\ claudeFs.entries[1].isDirectory
    /\ claudeFs.entries[1].index.state = "invalid"
    /\ \E i \in 1..Len(ret.value) : ret.value[i].escapedPath = "2"

\* the first line of the file is an event of type session_meta with a payload
IsSessionMeta(file) ==
    /\ file.line.kind = "event"
    /\ file.line.type = "session_meta"
    /\ file.line.hasPayload

\* C6: a Codex session-transcript file whose first line is not an event of
\* type session_meta carrying a payload yields no session record: it is in
\* no list getSessions returns, in no project, and not counted in
\* totalSessions.
C6_NotSessionMetaExcluded ==
    /\ CodexReturned("codex.getSessions") =>
          \A k \in 1..Len(codexFs.files) :
              ~IsSessionMeta(codexFs.files[k]) =>
                  RecordsOf(ret.value, codexFs.files[k].name) = 0
    /\ CodexReturned("codex.getProjects") =>
          \A k \in 1..Len(codexFs.files), i \in 1..Len(ret.value) :
              ~IsSessionMeta(codexFs.files[k]) =>
                  RecordsOf(ret.value[i].sessions, codexFs.files[k].name) = 0
    /\ CodexReturned("codex.getRecentStats") =>
          ret.value.totalSessions =
              Cardinality({k \in 1..Len(codexFs.files) :
                  codexFs.files[k].jsonl /\ IsSessionMeta(codexFs.files[k])})

\* getRecentStats has counted the one session of a directory that also
\* holds a file starting with an event of another type that has a payload
C6_Witness ==
    /\ CodexReturned("codex.getRecentStats")
    /\ ret.value.totalSessions = 1
    /\ \E k \in 1..Len(codexFs.files) :
          /\ codexFs.files[k].jsonl
          /\ codexFs.files[k].line.type = "not_session_meta"
          /\ codexFs.files[k].line.hasPayload

\* C7: no partial session record is returned: every record getSessions
\* returns has a defined id, timestamp and working directory.
C7_NoPartialRecord ==
    CodexReturned("codex.getSessions") =>
        \A i \in 1..Len(ret.value) :
            /\ ret.value[i].id # Undefined
            /\ ret.value[i].timestamp # Undefined
            /\ ret.value[i].cwd # Undefined

(* The snapshot of recent activity: what the claims say of it *)

SnapshotReturned == ret.op = "claude.getTodayStats" /\ ~ret.threw

\* the stats cache has a daily-activity list that is not empty
HasActivity ==
    /\ statsFile.state = "ok"
    /\ statsFile.hasDailyActivity
    /\ Len(statsFile.dailyActivity) > 0

\* the daily-activity list is non-empty and has no entry for today
NoEntryToday ==
    /\ HasActivity
    /\ \A i \in 1..Len(statsFile.dailyActivity) :
          statsFile.dailyActivity[i].date # IsoDate(now)

C9_FallsBackToGreatestDate ==
    (SnapshotReturned /\ NoEntryToday) =>
        \A i \in 1..Len(statsFile.dailyActivity) :
            statsFile.dailyActivity[i].date <= ret.value.date

\* C10: the snapshot's totalTokens is the sum of the per-model token counts
\* recorded for the date of the snapshot's label, in the today branch and in
\* the fallback branch (the daily-activity list is not empty), and 0 when no
\* token entry exists for that date.
C10_TokensOfTheLabelDate ==
    (SnapshotReturned /\ HasActivity) =>
        LET tokens == statsFile.dailyModelTokens
            dated  == {i \in 1..Len(tokens) : tokens[i].date = ret.value.date}
        IN  IF dated = {}
            THEN ret.value.totalTokens = 0
            ELSE \E i \in dated : ret.value.totalTokens = SumTokens(tokens[i])

(* The stats cache missing or empty *)

UsageReturned == ret.op = "claude.getModelUsage" /\ ~ret.threw

ZeroSnapshot(date) ==
    [messages |-> 0, sessions |-> 0, toolCalls |-> 0, totalTokens |-> 0, date |-> date]

\* C11 as stated: when the stats file is absent, unparseable, or has a
\* missing or empty daily-activity list, getTodayStats returns the all-zero
\* snapshot labelled with today's date, getModelUsage returns an empty map,
\* and neither throws.
C11_NoActivityGivesZerosAndNoUsage ==
    ~HasActivity =>
        /\ ret.op = "claude.getTodayStats" =>
              (~ret.threw /\ ret.value = ZeroSnapshot(IsoDate(now)))
        /\ ret.op = "claude.getModelUsage" =>
              (~ret.threw /\ ret.value = EmptyObject)

\* the stats file is absent or unparseable, or has no modelUsage entry
NoUsage ==
    \/ statsFile.state # "ok"
    \/ ~statsFile.hasModelUsage
    \/ statsFile.modelUsage = <<>>

\* C11 amended: when the stats file is absent, unparseable, or has a missing
\* or empty daily-activity list, getTodayStats returns the all-zero snapshot
\* labelled with today's date; when it is absent, unparseable, or has a
\* missing or empty modelUsage, getModelUsage returns an empty map; neither
\* throws.
C11_MissingStatsGiveZeros ==
    /\ (ret.op = "claude.getTodayStats" /\ ~HasActivity) =>
          (~ret.threw /\ ret.value = ZeroSnapshot(IsoDate(now)))
    /\ (ret.op = "claude.getModelUsage" /\ NoUsage) =>
          (~ret.threw /\ ret.value = EmptyObject)
    /\ ret.op \in {"claude.getTodayStats", "claude.getModelUsage"} => ~ret.threw

\* getModelUsage has run on a stats file that does not parse
C11_Witness ==
    /\ UsageReturned
    /\ statsFile.state = "invalid"
    /\ ret.value = EmptyObject

(* The usage per model family *)

\* the keys of modelUsage whose short name is name
SameFamily(name) ==
    {i \in 1..Len(statsFile.modelUsage) :
        getShortModelName(statsFile.modelUsage[i].model) = name}

\* C13: raw model identifiers that canonicalize to the same short name
\* produce one getModelUsage entry whose input and output counts are the
\* sums of the counts of all those identifiers.
C13_SameNameIsSummed ==
    (UsageReturned /\ ~NoUsage) =>
        \A name \in DOMAIN ret.value :
            LET usage == statsFile.modelUsage
                same  == SameFamily(name)
            IN  /\ ret.value[name].input =
                      SumSeq([i \in 1..Len(usage) |->
                                IF i \in same THEN InputOrZero(usage[i].usage) ELSE 0])
                /\ ret.value[name].output =
                      SumSeq([i \in 1..Len(usage) |->
                                IF i \in same THEN usage[i].usage.outputTokens ELSE 0])

\* the family names in the order they are looked for, and their short names
Families == <<"opus", "sonnet", "haiku">>

FamilyNames == <<"Opus", "Sonnet", "Haiku">>

\* the identifier has the family as a substring
HasFamily(id, family) ==
    \E i \in 1..Len(id) :
        /\ i + Len(family) - 1 <= Len(id)
        /\ SubSeq(id, i, i + Len(family) - 1) = family

\* name is what precedes the first hyphen of the identifier: a prefix without
\* a hyphen that ends where the identifier ends or a hyphen follows
IsLeadingSegment(id, name) ==
    \E k \in 0..Len(id) :
        /\ name = SubSeq(id, 1, k)
        /\ \A i \in 1..k : SubSeq(id, i, i) # "-"
        /\ k = Len(id) \/ SubSeq(id, k + 1, k + 1) = "-"

\* name is the short name the rule gives the identifier
IsShortNameOf(id, name) ==
    IF \E f \in 1..3 : HasFamily(id, Families[f])
    THEN \E f \in 1..3 :
            /\ HasFamily(id, Families[f])
            /\ \A g \in 1..(f - 1) : ~HasFamily(id, Families[g])
            /\ name = FamilyNames[f]
    ELSE IsLeadingSegment(id, name)

\* C14: the short model name is decided by the first match in the order
\* opus, sonnet, haiku; an identifier containing none of them maps to its
\* segment before the first hyphen.  The keys of the map getModelUsage
\* returns are exactly these short names of the raw identifiers.
C14_ShortNameByPriority ==
    (UsageReturned /\ ~NoUsage) =>
        LET usage == statsFile.modelUsage
        IN  /\ \A i \in 1..Len(usage) :
                  \E name \in DOMAIN ret.value : IsShortNameOf(usage[i].model, name)
            /\ \A name \in DOMAIN ret.value :
                  \E i \in 1..Len(usage) : IsShortNameOf(usage[i].model, name)

\* the usage of an identifier with two families in it, the later of the
\* order first, and of one with no family
C14_Witness ==
    /\ UsageReturned
    /\ Len(statsFile.modelUsage) = 2
    /\ statsFile.modelUsage[1].model = "sonnet-opus"
    /\ statsFile.modelUsage[2].model = "gpt-4o"
    /\ DOMAIN ret.value = {"Opus", "gpt"}

(* Today *)

\* the calendar date of the clock in the time zone of the machine
LocalDate == (now + utcOffset) \div MsPerDay

\* C12: the date getTodayStats looks up in the daily-activity list, and uses
\* as the default label, is the current calendar date of the local time
\* zone, for every clock time and every UTC offset: without a list the
\* label is the local date, and with an entry of the local date in the list
\* the snapshot is the first such entry.
C12_TodayIsLocalDate ==
    SnapshotReturned =>
        /\ ~HasActivity => ret.value.date = LocalDate
        /\ (HasActivity /\ FindDate(statsFile.dailyActivity, LocalDate) # 0) =>
              LET e == statsFile.dailyActivity[FindDate(statsFile.dailyActivity, LocalDate)]
              IN  /\ ret.value.date = LocalDate
                  /\ ret.value.messages = e.messageCount
                  /\ ret.value.sessions = e.sessionCount
                  /\ ret.value.toolCalls = e.toolCallCount

(* Relative times *)

FormatReturned ==
    /\ ret.op \in {"claude.formatRelativeTime", "codex.formatRelativeTime"}
    /\ ~IsNaN(ret.arg)

\* the age of the date formatted, at the call
ElapsedMs == now - ret.arg

\* a month/day/year string of January 1970
IsCalendarDate(text) ==
    \E day \in 1..31 : text = "1/" \o ToString(day) \o "/1970"

\* C15: for every elapsed time d = now - date >= 0 in milliseconds,
\* formatRelativeTime (both providers) returns 'just now' below one minute,
\* '{n}m ago' for n whole minutes below 60, '{n}h ago' for n whole hours
\* below 24, '{n}d ago' for n whole days below 7, the whole units counted by
\* truncation, else a calendar date string.
C15_RelativeTimeThresholds ==
    (FormatReturned /\ ElapsedMs >= 0) =>
        LET d == ElapsedMs
            text == ret.value
        IN  \/ d < MsPerMinute /\ text = "just now"
            \/ \E n \in 1..59 :
                  /\ n * MsPerMinute <= d /\ d < (n + 1) * MsPerMinute
                  /\ text = ToString(n) \o "m ago"
            \/ \E n \in 1..23 :
                  /\ n * MsPerHour <= d /\ d < (n + 1) * MsPerHour
                  /\ text = ToString(n) \o "h ago"
            \/ \E n \in 1..6 :
                  /\ n * MsPerDay <= d /\ d < (n + 1) * MsPerDay
                  /\ text = ToString(n) \o "d ago"
            \/ d >= 7 * MsPerDay /\ IsCalendarDate(text)

\* a date one millisecond short of seven days old is six days ago, for Codex
C15_Witness ==
    /\ ret.op = "codex.formatRelativeTime"
    /\ ElapsedMs = 7 * MsPerDay - 1
    /\ ret.value = "6d ago"

\* C16 as stated: for a date exactly 59 seconds in the past formatRelativeTime
\* does not return 'just now', and for a date exactly 60 seconds in the past
\* it returns '1m ago'.
C16_NotJustNowAt59Seconds ==
    FormatReturned =>
        /\ ElapsedMs = 59000 => ret.value # "just now"
        /\ ElapsedMs = 60000 => ret.value = "1m ago"

\* C16 amended: for a date exactly 59 seconds in the past formatRelativeTime
\* returns 'just now', and for a date exactly 60 seconds in the past it
\* returns '1m ago'.
C16_JustNowUpTo60Seconds ==
    FormatReturned =>
        /\ ElapsedMs = 59000 => ret.value = "just now"
        /\ ElapsedMs = 60000 => ret.value = "1m ago"

\* a date 59 seconds old has been formatted
C16_Witness ==
    /\ ret.op = "claude.formatRelativeTime"
    /\ ElapsedMs = 59000
    /\ ret.value = "just now"

(* The history *)

HistoryReturned == ret.op = "claude.getRecentHistory" /\ ~ret.threw

\* the last n elements of a sequence, all of it when it has fewer
LastOf(s, n) == SubSeq(s, IF Len(s) > n THEN Len(s) - n + 1 ELSE 1, Len(s))

\* C20: for every limit >= 0 and every history file, getRecentHistory(limit)
\* returns at most limit entries: the parseable lines among the last limit
\* non-empty lines of the file, in reverse file order (last line first).
C20_AtMostLimitEntries ==
    HistoryReturned =>
        LET limit    == ret.arg
            nonEmpty == SelectSeq(historyFile.lines, IsTruthy)
            counted  == SelectSeq(LastOf(nonEmpty, limit), Parses)
        IN  /\ Len(ret.value) <= limit
            /\ ret.value = [i \in 1..Len(counted) |-> counted[Len(counted) + 1 - i].entry]

(* The debounce of the file events *)

\* C17: for any sequence of file events from the Claude and Codex watchers,
\* a debounced refresh fires only when 1000 ms have passed since the most
\* recent event, and it refreshes the session tree and the stats tree; a
\* burst in which each event follows the previous one by less than 1000 ms
\* produces exactly one refresh: none while a timer is pending, one once it
\* has gone; at most one debounce timer is pending at any time.
C17_DebouncedRefresh ==
    /\ [](Cardinality(extension.timers) <= 1)
    /\ [](extension.timers # {} => extension.burstRefreshes = 0)
    /\ []((extension.lastEvent # NoEvent /\ extension.timers = {}) =>
            extension.burstRefreshes = 1)
    /\ [][extension'.burstRefreshes > extension.burstRefreshes =>
            /\ extension.sinceEvent >= DebounceMs
            /\ extension'.sessionTreeStale = {}
            /\ extension'.statsTreeStale = {}]_vars

\* a burst of two events or more, of both watchers, has had its refresh
C17_Witness ==
    /\ extension.burstEvents = 2
    /\ extension.burstRefreshes = 1
    /\ extension.lastEvent.watcher = "codex"
    /\ extension.timers = {}

\* a tree has not been refreshed since an event of the Claude watcher
ClaudeStale ==
    "claude" \in extension.sessionTreeStale \cup extension.statsTreeStale

\* C18 as stated: every create, change or delete event on a watched Claude
\* file is eventually followed by a refresh of both the session tree and the
\* stats tree.
C18_EventLeadsToRefresh == ClaudeStale ~> ~ClaudeStale

\* C18 amended: every create, change or delete event on a watched Claude file
\* leaves a debounce timer pending, and is followed by a refresh of both the
\* session tree and the stats tree once 1000 ms have passed without a further
\* file event.
C18_RefreshedOnceQuiet ==
    /\ [](ClaudeStale => extension.timers # {})
    /\ (ClaudeStale /\ extension.sinceEvent >= DebounceMs) ~> ~ClaudeStale

\* the timer of a deletion the Claude watcher reported has run
C18_Witness ==
    /\ extension.lastEvent = [watcher |-> "claude", kind |-> "delete"]
    /\ extension.burstRefreshes = 1
    /\ ~ClaudeStale

(* The dashboard *)

\* a step of createOrShow
CreateOrShowStep ==
    /\ dashboard' # dashboard
    /\ dashboard'.last \in {"created", "revealed"}

\* C19: in every reachable state at most one dashboard panel exists, and
\* currentPanel refers to it; createOrShow creates a webview panel only when
\* currentPanel is undefined, otherwise it reveals and updates the existing
\* panel; after dispose, currentPanel is undefined and the next createOrShow
\* creates a new panel.
C19_OnePanel ==
    /\ [](Cardinality(dashboard.live) <= 1)
    /\ [](dashboard.live =
            IF dashboard.currentPanel = 0 THEN {} ELSE {dashboard.currentPanel})
    /\ [](dashboard.last = "disposed" => dashboard.currentPanel = 0)
    /\ [][dashboard'.created > dashboard.created => dashboard.currentPanel = 0]_vars
    /\ [][(CreateOrShowStep /\ dashboard.currentPanel # 0) =>
            /\ dashboard'.last = "revealed"
            /\ dashboard'.live = dashboard.live
            /\ dashboard'.currentPanel = dashboard.currentPanel
            /\ dashboard'.updating[dashboard.currentPanel] =
                   dashboard.updating[dashboard.currentPanel] + 1]_vars
    /\ [][(CreateOrShowStep /\ dashboard.currentPanel = 0) =>
            /\ dashboard'.last = "created"
            /\ dashboard'.created = dashboard.created + 1
            /\ dashboard'.currentPanel = dashboard'.created
            /\ dashboard'.live = {dashboard'.created}]_vars

\* the first panel was disposed, and createOrShow has created a second
C19_Witness ==
    /\ dashboard.created = 2
    /\ dashboard.last = "created"
    /\ dashboard.live = {2}
    /\ dashboard.currentPanel = 2

(* CodexDataProvider.getSessions and getProjects: the records and their groups *)

\* the .jsonl files parseSessionFile accepts
AcceptedFiles ==
    {k \in 1..Len(codexFs.files) :
        codexFs.files[k].jsonl /\ Accepted(codexFs.files[k])}

\* every accepted file has exactly one record in the list, every other file
\* none, and the list holds nothing else
OneRecordPerAcceptedFile(list) ==
    /\ Len(list) = Cardinality(AcceptedFiles)
    /\ \A k \in 1..Len(codexFs.files) :
          RecordsOf(list, codexFs.files[k].name) =
              IF k \in AcceptedFiles THEN 1 ELSE 0

\* C21: getSessions (Codex) returns exactly one record per accepted session
\* file, in non-increasing order of timestamp; two files whose metadata
\* carry the same id both appear in the result.
C21_OneRecordPerFileNewestFirst ==
    CodexReturned("codex.getSessions") =>
        /\ OneRecordPerAcceptedFile(ret.value)
        /\ NonIncreasing(Timestamps(ret.value))

\* the part of C21 that is not about the order
C21_OneRecordPerFile ==
    CodexReturned("codex.getSessions") => OneRecordPerAcceptedFile(ret.value)

\* two files of the same id, both in the list returned
C21_SameIdTwice ==
    /\ CodexReturned("codex.getSessions")
    /\ \E i, j \in 1..Len(ret.value) :
          /\ i # j
          /\ ret.value[i].id = ret.value[j].id
          /\ ret.value[i].id # Undefined

\* the order of C21 when every record has a timestamp
C21_NewestFirstWhenDated ==
    (/\ CodexReturned("codex.getSessions")
     /\ \A i \in 1..Len(ret.value) : ret.value[i].timestamp # Undefined) =>
        NonIncreasing(Timestamps(ret.value))

\* every session getSessions returns on the files is in exactly one project
\* of the list, the one project whose path is the session's cwd
PartitionsByCwd(projects) ==
    LET sessions == CodexSessions(codexFs)
    IN  \A k \in 1..Len(sessions) :
            /\ Cardinality({i \in 1..Len(projects) :
                   projects[i].path = sessions[k].cwd}) = 1
            /\ \A i \in 1..Len(projects) :
                   RecordsOf(projects[i].sessions, sessions[k].filePath) =
                       IF projects[i].path = sessions[k].cwd THEN 1 ELSE 0

\* totalSessions is the length of the sessions list
CountsItsSessions(p) == p.totalSessions = Len(p.sessions)

\* lastModified is the timestamp of a session of the project, and no session
\* of the project has a later one
LastModifiedIsGreatest(p) ==
    /\ \E k \in 1..Len(p.sessions) : SessionTimestamp(p.sessions[k]) = p.lastModified
    /\ \A k \in 1..Len(p.sessions) :
          ~JsGreater(SessionTimestamp(p.sessions[k]), p.lastModified)

\* C22: getProjects (Codex) partitions the sessions by working directory:
\* every session getSessions returns is in exactly one project, the one whose
\* path equals its cwd; each project's totalSessions is the length of its
\* sessions list and its lastModified the greatest timestamp of its sessions.
C22_ProjectsPartitionSessions ==
    CodexReturned("codex.getProjects") =>
        /\ PartitionsByCwd(ret.value)
        /\ \A i \in 1..Len(ret.value) :
              /\ CountsItsSessions(ret.value[i])
              /\ LastModifiedIsGreatest(ret.value[i])

\* the parts of C22 about the partition and the count
C22_PartitionAndCount ==
    CodexReturned("codex.getProjects") =>
        /\ PartitionsByCwd(ret.value)
        /\ \A i \in 1..Len(ret.value) : CountsItsSessions(ret.value[i])

\* C22 when every session has a timestamp
C22_WhenDated ==
    (/\ CodexReturned("codex.getProjects")
     /\ \A k \in AcceptedFiles :
           codexFs.files[k].line.payload.timestamp # Undefined) =>
        \A i \in 1..Len(ret.value) : LastModifiedIsGreatest(ret.value[i])

\* two projects returned, one of them with two sessions
C22_TwoProjects ==
    /\ CodexReturned("codex.getProjects")
    /\ Len(ret.value) = 2
    /\ \E i \in 1..2 : Len(ret.value[i].sessions) = 2

\* C23: for every set of Codex session-transcript files, a session_meta
\* payload without a working directory or a timestamp included, getProjects
\* and getRecentStats return a result and do not throw.
C23_MalformedNeverThrows ==
    ret.op \in {"codex.getProjects", "codex.getRecentStats"} => ~ret.threw

\* the part of C23 about getRecentStats, and about getProjects when every
\* payload has a working directory
C23_ThrowsOnlyWithoutCwd ==
    /\ ret.op = "codex.getRecentStats" => ~ret.threw
    /\ (/\ ret.op = "codex.getProjects"
        /\ \A k \in AcceptedFiles : codexFs.files[k].line.payload.cwd # Undefined) =>
          ~ret.threw

\* getRecentStats has counted a session without a timestamp
C23_StatsOfUndated ==
    /\ CodexReturned("codex.getRecentStats")
    /\ ret.value.totalSessions = 1
    /\ ret.value.recentSessions = 0
    /\ \E k \in AcceptedFiles : codexFs.files[k].line.payload.timestamp = Undefined

(* ClaudeDataProvider.getProjects: the path of a project *)

\* the directory entries a project of the list returned comes from
EntriesOf(p) ==
    {k \in 1..Len(claudeFs.entries) : claudeFs.entries[k].name = p.escapedPath}

\* C24: when the index file carries no originalPath, the path getProjects
\* gives the project is the working-directory path that was escaped into the
\* name of the project's directory, for every such path.
C24_UnescapeRestoresPath ==
    ClaudeReturned =>
        \A i \in 1..Len(ret.value) : \A k \in EntriesOf(ret.value[i]) :
            claudeFs.entries[k].index.originalPath = Undefined =>
                ret.value[i].path = claudeFs.entries[k].cwd

\* C24 for the working directories without a hyphen, and the path of a
\* project whose index file carries originalPath
C24_RestoredWithoutHyphen ==
    ClaudeReturned =>
        \A i \in 1..Len(ret.value) : \A k \in EntriesOf(ret.value[i]) :
            LET e == claudeFs.entries[k]
            IN  (e.index.originalPath # Undefined \/ ~Includes(e.cwd, "-")) =>
                    /\ ret.value[i].path = e.cwd
                    /\ ret.value[i].name = Basename(e.cwd)

\* a project whose path was derived from the name of its directory
C24_PathDerived ==
    /\ ClaudeReturned
    /\ \E i \in 1..Len(ret.value) : \E k \in EntriesOf(ret.value[i]) :
          /\ claudeFs.entries[k].index.originalPath = Undefined
          /\ ret.value[i].path = "/w/b"
          /\ ret.value[i].name = "b"

(* The order of projects and sessions of equal times *)

\* the place of the directory of a name in the listing of the projects
\* directory
ListingPlace(name) ==
    CHOOSE k \in 1..Len(claudeFs.entries) : claudeFs.entries[k].name = name

\* the place of the first session of a working directory in the list
\* getSessions returns on the files
FirstAppearance(cwd) ==
    LET sessions == CodexSessions(codexFs)
        at       == {k \in 1..Len(sessions) : sessions[k].cwd = cwd}
    IN  CHOOSE k \in at : \A l \in at : k <= l

\* the place of the session of a file in the list getSessions returns
SortedPlace(filePath) ==
    LET sessions == CodexSessions(codexFs)
    IN  CHOOSE k \in 1..Len(sessions) : sessions[k].filePath = filePath

C25_EqualProjects ==
    /\ CodexReturned("codex.getProjects")
    /\ Len(ret.value) = 2
    /\ ret.value[1].lastModified = ret.value[2].lastModified
    /\ ret.value[1].lastModified # Epoch

(* The readers called twice *)

\* the readers the claim is about
RepeatableCalls ==
    {"claude.getProjects", "codex.getProjects", "codex.getSessions",
     "claude.getModelUsage", "claude.getTodayStats"}

UpdateReturned == ret.op = "dashboard.update" /\ ~ret.threw

\* getProjects has left the session list it parsed from every index file as
\* it was parsed; the list of a project returned is that list, the array
\* sort() was called on and returned
ParsedListsUnchanged ==
    \A i \in 1..Len(ret.value) : \A k \in EntriesOf(ret.value[i]) :
        ret.value[i].sessions = IndexSessions(claudeFs.entries[k].index)

\* mergeProjects has left the lists of both providers, and the records in
\* them, as the providers returned them
MergedListsUnchanged ==
    /\ ret.arg.claudeProjects = ClaudeProjects(claudeFs).value
    /\ ret.arg.codexProjects = CodexProjectsIfAvailable(codexFs)

\* C27: aggregation does not modify its inputs: mergeProjects leaves the
\* lists of Claude and Codex projects and their records unchanged, and
\* getProjects leaves the content and the order of the parsed session list
\* unchanged.
C27_InputsUnchanged ==
    /\ UpdateReturned => MergedListsUnchanged
    /\ ClaudeReturned => ParsedListsUnchanged

\* the part of C27 about mergeProjects
C27_MergeLeavesLists == UpdateReturned => MergedListsUnchanged

\* the content of the parsed lists is unchanged: the list of a project holds
\* each session of the index file once
C27_ContentUnchanged ==
    ClaudeReturned =>
        \A i \in 1..Len(ret.value) : \A k \in EntriesOf(ret.value[i]) :
            LET parsed == IndexSessions(claudeFs.entries[k].index)
            IN  /\ Len(ret.value[i].sessions) = Len(parsed)
                /\ \A n \in 1..Len(parsed) :
                      \E m \in 1..Len(parsed) : ret.value[i].sessions[m] = parsed[n]

\* the update has merged lists of both providers whose order the sort of the
\* merged list does not keep
C27_MergeReorders ==
    /\ UpdateReturned
    /\ Len(ret.arg.claudeProjects) >= 2
    /\ Len(ret.arg.codexProjects) >= 2
    /\ ret.value.mergedProjects[2].source = "codex"
    /\ ret.value.mergedProjects[Len(ret.value.mergedProjects)].source = "claude"

(* The merged list of projects and the list rendered *)

\* a merged project without the two fields mergeProjects adds
Untagged(project) ==
    [f \in DOMAIN project \ {"source", "sortDate"} |-> project[f]]

\* the projects of the merged list that are copies of a project of a source
CopiesOf(merged, project, source) ==
    {j \in 1..Len(merged) :
        merged[j].source = source /\ Untagged(merged[j]) = project}

\* the lesser of two numbers
Min(a, b) == IF a < b THEN a ELSE b

\* C30: mergeProjects returns each Claude project and each Codex project
\* exactly once, tagged with its source, in non-increasing order of
\* lastModified, and the dashboard renders the first min(15, n) projects of
\* that order.
C30_MergedOnceNewestFirstCapped ==
    UpdateReturned =>
        LET claudeProjects == ret.arg.claudeProjects
            codexProjects  == ret.arg.codexProjects
            merged         == ret.value.mergedProjects
            items          == ret.value.list.items
        IN  /\ Len(merged) = Len(claudeProjects) + Len(codexProjects)
            /\ \A i \in 1..Len(claudeProjects) :
                  Cardinality(CopiesOf(merged, claudeProjects[i], "claude")) = 1
            /\ \A i \in 1..Len(codexProjects) :
                  Cardinality(CopiesOf(merged, codexProjects[i], "codex")) = 1
            /\ NonIncreasing([j \in 1..Len(merged) |-> merged[j].lastModified])
            /\ Len(items) = Min(RenderCap, Len(merged))
            /\ \A j \in 1..Len(items) :
                  /\ items[j].project = merged[j].name
                  /\ items[j].badge =
                         IF merged[j].source = "claude" THEN "Claude" ELSE "Codex"

\* more projects than the dashboard shows, of both agents, the latest of
\* them a Codex project and the last one shown older than the first
C30_Witness ==
    /\ UpdateReturned
    /\ Len(ret.value.mergedProjects) > RenderCap
    /\ Len(ret.value.list.items) = RenderCap
    /\ Len(ret.arg.claudeProjects) >= 2
    /\ ret.value.mergedProjects[1].source = "codex"
    /\ ret.value.mergedProjects[1].lastModified
           > ret.value.mergedProjects[RenderCap].lastModified

(* update() and dispose() of a dashboard panel *)

\* the step is the last statement of an update() of the panel
AssignsHtml(panel) ==
    dashboard'.updating[panel] < dashboard.updating[panel]

C28_HtmlOfDisposedUnchanged ==
    [][\A panel \in 1..dashboard.created :
           panel \notin dashboard.live =>
               dashboard'.html[panel] = dashboard.html[panel]]_vars

\* a panel was disposed while its first update() was awaiting, and the
\* update has ended since
C28_UpdateOutlivedPanel ==
    /\ dashboard.created >= 1
    /\ 1 \notin dashboard.live
    /\ dashboard.updating[1] = 0
    /\ dashboard.last \in {"updated", "threw"}

(* deactivate and the debounce timer *)

\* the step is the callback of the debounce timer: a debounced refresh fires
DebouncedRefreshFires ==
    extension'.burstRefreshes > extension.burstRefreshes

\* C29: after deactivate has run no debounced refresh of the tree providers
\* fires, even when a file event came less than 1000 ms before deactivate.
C29_NoRefreshAfterDeactivate ==
    [][~extension.active => ~DebouncedRefreshFires]_vars

\* deactivate leaves no watcher that reports events: no new debounce timer
\* is set after it
C29_NoTimerSetAfterDeactivate ==
    [][~extension.active =>
           Cardinality(extension'.timers) <= Cardinality(extension.timers)]_vars

\* the extension is deactivated and the refresh of the last burst has fired
\* with no timer left
C29_RefreshedWhileInactive ==
    /\ ~extension.active
    /\ extension.burstRefreshes = 1
    /\ extension.timers = {}

----------------------------------------------------------------------------
(* The specifications *)

Init ==
    /\ claudeFs = [exists |-> FALSE, entries |-> <<>>]
    /\ codexFs = [exists |-> FALSE, files |-> <<>>]
    /\ statsFile = StatsAbsent
    /\ now = 10 * MsPerDay
    /\ ret = NoReturn
    /\ utcOffset = 0
    /\ historyFile = HistoryAbsent
    /\ extension = Activated(FALSE)
    /\ dashboard = NoDashboard

Next ==
    \/ ClaudeMkdir
    \/ ClaudeCreateEntry
    \/ ClaudeWriteSession
    \/ ClaudeGetProjects
    \/ CodexMkdir
    \/ CodexCreateFile
    \/ CodexGetSessions
    \/ CodexGetProjects
    \/ CodexGetRecentStats

Spec == Init /\ [][Next]_vars

\* the stats cache and the snapshot of it
InitStats ==
    /\ claudeFs = [exists |-> FALSE, entries |-> <<>>]
    /\ codexFs = [exists |-> FALSE, files |-> <<>>]
    /\ statsFile = StatsAbsent
    /\ now = MsPerDay
    /\ ret = NoReturn
    /\ utcOffset = 0
    /\ historyFile = HistoryAbsent
    /\ extension = Activated(FALSE)
    /\ dashboard = NoDashboard

NextStats ==
    \/ StatsCreate
    \/ StatsWriteActivity
    \/ StatsWriteTokens
    \/ ClockTick
    \/ GetTodayStats

SpecStats == InitStats /\ [][NextStats]_vars

\* the usage per model of the stats cache; getTodayStats reads the two daily
\* lists and getModelUsage reads modelUsage alone, and here the daily lists
\* stay missing or empty
NextUsage ==
    \/ StatsCreate
    \/ StatsWriteUsage
    \/ GetTodayStats
    \/ GetModelUsage

SpecUsage == InitStats /\ [][NextUsage]_vars

\* the snapshot at every quarter of the day, in every time zone
InitZone ==
    /\ claudeFs = [exists |-> FALSE, entries |-> <<>>]
    /\ codexFs = [exists |-> FALSE, files |-> <<>>]
    /\ statsFile = StatsAbsent
    /\ now = MsPerDay
    /\ ret = NoReturn
    /\ utcOffset \in UtcOffsets
    /\ historyFile = HistoryAbsent
    /\ extension = Activated(FALSE)
    /\ dashboard = NoDashboard

NextZone ==
    \/ StatsCreate
    \/ StatsWriteActivity
    \/ ZoneTick
    \/ GetTodayStats

SpecZone == InitZone /\ [][NextZone]_vars

\* the relative time of dates of every age
InitTime ==
    /\ claudeFs = [exists |-> FALSE, entries |-> <<>>]
    /\ codexFs = [exists |-> FALSE, files |-> <<>>]
    /\ statsFile = StatsAbsent
    /\ now \in ClockChoices
    /\ ret = NoReturn
    /\ utcOffset \in UtcOffsets
    /\ historyFile = HistoryAbsent
    /\ extension = Activated(FALSE)
    /\ dashboard = NoDashboard

NextTime ==
    \/ ClaudeFormatRelativeTime
    \/ CodexFormatRelativeTime

SpecTime == InitTime /\ [][NextTime]_vars

\* the history file and the calls of getRecentHistory
InitHistory ==
    /\ claudeFs = [exists |-> FALSE, entries |-> <<>>]
    /\ codexFs = [exists |-> FALSE, files |-> <<>>]
    /\ statsFile = StatsAbsent
    /\ now = 10 * MsPerDay
    /\ ret = NoReturn
    /\ utcOffset = 0
    /\ historyFile = HistoryAbsent
    /\ extension = Activated(FALSE)
    /\ dashboard = NoDashboard

NextHistory ==
    \/ HistoryCreate
    \/ HistoryAppend
    \/ GetRecentHistory

SpecHistory == InitHistory /\ [][NextHistory]_vars

\* the extension after activation: the file watchers and the timers
InitWatch ==
    /\ claudeFs = [exists |-> FALSE, entries |-> <<>>]
    /\ codexFs = [exists |-> FALSE, files |-> <<>>]
    /\ statsFile = StatsAbsent
    /\ now = 10 * MsPerDay
    /\ ret = NoReturn
    /\ utcOffset = 0
    /\ historyFile = HistoryAbsent
    /\ \E codexAvailable \in BOOLEAN : extension = Activated(codexAvailable)
    /\ dashboard = NoDashboard

NextWatch ==
    \/ FileEvent
    \/ Tick
    \/ TimerFire
    \/ RefreshCommand
    \/ Deactivate

SpecWatch == InitWatch /\ [][NextWatch]_vars

\* time passes, and the event loop runs a timeout that is due
SpecWatchFair == SpecWatch /\ WF_vars(Tick) /\ WF_vars(TimerFire)

\* the dashboard, opened by the command and closed by the user
InitDashboard ==
    /\ claudeFs = [exists |-> FALSE, entries |-> <<>>]
    /\ codexFs = [exists |-> FALSE, files |-> <<>>]
    /\ statsFile = StatsAbsent
    /\ now = 10 * MsPerDay
    /\ ret = NoReturn
    /\ utcOffset = 0
    /\ historyFile = HistoryAbsent
    /\ \E codexAvailable \in BOOLEAN : extension = Activated(codexAvailable)
    /\ dashboard = NoDashboard

NextDashboard ==
    \/ OpenDashboard
    \/ ClosePanel
    \/ WebviewRefresh
    \/ UpdateDone
    \/ Deactivate

SpecDashboard == InitDashboard /\ [][NextDashboard]_vars

\* the project directories the CLI names after working directories
NextPath ==
    \/ ClaudeMkdir
    \/ ClaudeCreateProject
    \/ ClaudeGetProjects

SpecPath == Init /\ [][NextPath]_vars

\* every reader called again and again: a behaviour writes the project
\* directories, the session files or the stats cache; next to the stats
\* cache it writes the daily lists, and then the clock moves, or the usage
\* per model
ScanTwice ==
    /\ statsFile = StatsAbsent /\ now = MsPerDay
    /\ \/ ClaudeMkdir
       \/ ClaudeCreateEntry
       \/ ClaudeWriteSession
       \/ ClaudeGetProjects
       \/ CodexMkdir
       \/ CodexCreateFile
       \/ CodexGetSessions
       \/ CodexGetProjects

DailyTwice ==
    /\ ~claudeFs.exists /\ ~codexFs.exists
    /\ statsFile.modelUsage = <<>>
    /\ \/ StatsWriteActivity
       \/ StatsWriteTokens
       \/ ClockTick

UsageTwice ==
    /\ ~claudeFs.exists /\ ~codexFs.exists
    /\ statsFile.dailyActivity = <<>> /\ statsFile.dailyModelTokens = <<>>
    /\ now = MsPerDay
    /\ StatsWriteUsage

StatsTwice ==
    /\ ~claudeFs.exists /\ ~codexFs.exists
    /\ \/ StatsCreate
       \/ GetTodayStats
       \/ GetModelUsage

NextTwice == ScanTwice \/ DailyTwice \/ UsageTwice \/ StatsTwice

SpecTwice == InitStats /\ [][NextTwice]_vars

\* the dashboard's list of projects: both agents at work, Codex installed or
\* not
InitMerge ==
    /\ claudeFs = [exists |-> TRUE, entries |-> <<>>]
    /\ codexFs \in {[exists |-> e, files |-> <<>>] : e \in BOOLEAN}
    /\ statsFile = StatsAbsent
    /\ now = 10 * MsPerDay
    /\ ret = NoReturn
    /\ utcOffset = 0
    /\ historyFile = HistoryAbsent
    /\ extension = Activated(FALSE)
    /\ dashboard = NoDashboard

NextMerge ==
    \/ ClaudeStartProject
    \/ CodexStartSession
    \/ UpdateContent

SpecMerge == InitMerge /\ [][NextMerge]_vars

====
